---- MODULE Spec2Model ----
(***************************************************************************)
(* Verification model of OSCPixelSender:                                   *)
(*   - rle_encode (src/src/send_osc.rs), one action per loop iteration;    *)
(*   - the hand-off queue MessageQueueSender / MessageQueueReceiver        *)
(*     (src/src/mq.rs), one action per critical section;                   *)
(*   - the use the application makes of the queue (src/src/main.rs);       *)
(*   - send_osc (src/src/send_osc.rs): its synchronous set-up, one action  *)
(*     per statement group, and the transmission thread it spawns, one     *)
(*     action per protocol step.                                           *)
(* Each part has its own specification over the shared variable tuple;     *)
(* the variables of the other parts stay at their initial values.          *)
(***************************************************************************)
EXTENDS Integers, Sequences, FiniteSets, TLC

VARIABLES
    \* ---- rle_encode ----
    rle_plan,       \* shape of the input being fed: literal prefix, long run
    indexes,        \* the input bytes consumed so far (the slice iterated)
    result,         \* Vec<u8> result
    count,          \* u8 count
    current_value,  \* Option<u8>: <<>> is None, <<v>> is Some(v)
    rle_pc,         \* "loop" | "done" | "panic"
    triples,        \* 0-based output offsets at which a (v, v, count) triple starts
    \* ---- message queue ----
    q,              \* VecDeque<T> behind the mutex
    rcv_pc,         \* receiver thread: "idle" | "waiting" | "woken" | "panic"
    rcv_op,         \* the call the receiver is inside: "none" | "recv" | "drain"
    nsent,          \* number of values handed to a send operation so far
    sent,           \* every value handed to a send operation, in lock order
    replaced,       \* values that were overwritten in place
    received,       \* values the receiver got, in the order it got them
    last,           \* what the most recent queue step did
    poisoned,       \* the mutex is poisoned: a thread panicked holding the guard
    \* ---- application ----
    ui_pc,          \* UI thread: "running" | "joining"
    worker_pc,      \* worker thread: "recv" | "handling" | "finished"
    worker_msg,     \* the message the worker is handling, <<>> if none
    \* ---- send_osc ----
    so_args,        \* the arguments of the call: pixfmt, rle_compression,
                    \* palette, width, height, indexes
    so_pc,          \* position in send_osc: "idle" | "entry" | "bind" |
                    \* "pixfmt" | "encode" | "window" | "wait_window" | "returned"
    so_ret,         \* "none" | "ok" | "err_args" | "err_bind" | "err_palette"
    sock,           \* the UDP socket: "none" | "bound" | "closed"
    bitdepth,       \* 0 until resolved from pixfmt
    color,          \* "none" until resolved from pixfmt
    tx_indexes,     \* the packed (and run-length encoded) bytes to transmit
    appmsgs,        \* every AppMessage sent to the UI thread, in channel order
    ui_seen,        \* how many of them the UI event loop has handled
    win,            \* the progress window: "none" | "open" | "deleted"
    cancel_flag,    \* the AtomicBool shared with the window's callbacks
    cancel_at,      \* <<>>, or what had happened when cancel_flag was set
    tx_pc,          \* transmission thread: "none" | a protocol step |
                    \* "report" | "delete" | "exited"
    tx_chunk,       \* index of the chunk the running loop is at
    tx_clk,         \* send_clk's captured variable clk
    tx_end,         \* how the protocol closure ended: "none" | "ok" |
                    \* "cancelled" | "error"
    tx_trace,       \* the protocol steps and cancellation polls executed,
                    \* each with the sleeps it took
    wire,           \* every OSC message sent on the socket of the latest
                    \* transmission, in order
    \* ---- pack_bytes_clone ----
    pk_args,        \* the arguments of the call: indexes, width, bitdepth
    pk_out,         \* the Vec<u8> returned, <<>> before the return
    pk_pc,          \* "idle" | "call" | "done"
    \* ---- the worker's image ----
    processed_image,\* the worker's Option<ProcessedImage>: None, or Some of
                    \* its indexes, palette, width and height
    sent_image,     \* the value of processed_image when the worker last
                    \* called send_osc, None before
    \* ---- the progress bar ----
    progress_threads, \* the threads progress_message spawned that have not
                      \* run yet, each with the update it carries
    progressbar,      \* the update the progress bar shows: the last applied
    progress_hi       \* the highest issue number among the updates applied

rleVars == <<rle_plan, indexes, result, count, current_value, rle_pc, triples>>
mqVars  == <<q, rcv_pc, rcv_op, nsent, sent, replaced, received, last, poisoned>>
appVars == <<ui_pc, worker_pc, worker_msg>>
soVars  == <<so_args, so_pc, so_ret, sock, bitdepth, color, tx_indexes>>
uiVars  == <<appmsgs, ui_seen, win, cancel_flag, cancel_at>>
txVars  == <<tx_pc, tx_chunk, tx_clk, tx_end, tx_trace, wire,
            progress_threads, progressbar, progress_hi>>
oscVars == <<soVars, uiVars, txVars>>
packVars == <<pk_args, pk_out, pk_pc>>
imgVars == <<processed_image, sent_image>>
otherVars == <<rleVars, mqVars, appVars, packVars, imgVars>>
vars    == <<rleVars, mqVars, appVars, oscVars, packVars, imgVars>>

\* progressbar.set_minimum(0.0); set_maximum(100.0); set_value(0.0): the bar
\* as the window's setup creates it.  A value is the fraction <<num, den>>.
NoProgress == [n |-> 0, step |-> "none", chunk |-> 0, value |-> <<0, 1>>]

(***************************************************************************)
(* Program constants                                                       *)
(***************************************************************************)
BYTES_PER_SEND == 24

U8_MAX == 255

(***************************************************************************)
(* Bounds of the model                                                     *)
(***************************************************************************)
\* longest literal (run-free) prefix fed to rle_encode
MaxPrefix == 24

\* number of freely chosen bytes fed after the prefix and the long run
MaxTail == 9

\* a long run is fed with U8_MAX .. U8_MAX + MaxOver identical bytes
MaxOver == 2

\* number of values handed to the queue's send operations
MaxSends == 4

\* largest width, height and side of the index array in the set-up of send_osc
MaxDim == 2

\* side of the larger images that are transmitted
MaxSide == 5

\* size of the larger palettes that are transmitted
MaxPalette == 8

\* largest number of pixels of the short images given to pack_bytes_clone
MaxPixels == 4

\* width of the longest one-row image given to pack_bytes_clone
MaxRow == 9

\* number of Alerts the worker sends for failed calls of recv
MaxAlerts == 2

\* number of presses of the Send OSC button in one session
MaxCalls == 2

\* the largest number of requests that change the image during a transmission
MaxEdits == 1

\* a send may fail at the first MaxFailAt + 1 messages of a protocol step and
\* at its last one
MaxFailAt == 1

(***************************************************************************)
(* rle_encode                                                              *)
(***************************************************************************)
None == <<>>

\* pk_args while pack_bytes_clone is not being called
NoPack == [indexes |-> <<>>, width |-> 0, bitdepth |-> 0]

Some(v) == <<v>>

Unwrap(o) == o[1]

\* byte values of the freely chosen part of the input
Vals == {2, 255}

\* the long run's byte
RunVal == 255

\* the k-th byte (1-based) of the literal prefix: no two neighbours are equal
Lit(k) == IF k % 2 = 1 THEN 0 ELSE 1

LongRuns == {0} \cup (U8_MAX .. U8_MAX + MaxOver)

RlePlans == [lits : 0 .. MaxPrefix, run : LongRuns]

\* the bytes the input may continue with after the k-1 bytes consumed so far
NextBytes(plan, k) ==
    IF k <= plan.lits THEN {Lit(k)}
    ELSE IF k <= plan.lits + plan.run THEN {RunVal}
    ELSE IF k <= plan.lits + plan.run + MaxTail THEN Vals
    ELSE {}

\* mutant of MaybePush: a run is emitted as the pair (value, count)
MaybePushPair(res, cv, cnt, value) ==
    IF cv # None THEN
        IF cnt > 1 THEN
            [result |-> res \o <<Unwrap(cv), cnt>>,
             current_value |-> Some(value), count |-> 1,
             triple |-> {}, panic |-> FALSE]
        ELSE IF cnt = 1 THEN
            [result |-> Append(res, Unwrap(cv)),
             current_value |-> Some(value), count |-> 1,
             triple |-> {}, panic |-> FALSE]
        ELSE
            [result |-> res, current_value |-> cv, count |-> cnt,
             triple |-> {}, panic |-> TRUE]
    ELSE
        [result |-> res, current_value |-> cv, count |-> cnt,
         triple |-> {}, panic |-> FALSE]

\* fn maybe_push(result, current_value, count, value)
MaybePush(res, cv, cnt, value) ==
    IF cv # None THEN
        IF cnt > 1 THEN
            [result |-> res \o <<Unwrap(cv), Unwrap(cv), cnt>>,
             current_value |-> Some(value), count |-> 1,
             triple |-> {Len(res)}, panic |-> FALSE]
        ELSE IF cnt = 1 THEN
            [result |-> Append(res, Unwrap(cv)),
             current_value |-> Some(value), count |-> 1,
             triple |-> {}, panic |-> FALSE]
        ELSE
            [result |-> res, current_value |-> cv, count |-> cnt,
             triple |-> {}, panic |-> TRUE]
    ELSE
        [result |-> res, current_value |-> cv, count |-> cnt,
         triple |-> {}, panic |-> FALSE]

\* mutant of AtBlockEnd: the comparison is off by one
AtBlockEndOffByOne(res) == (Len(res) % BYTES_PER_SEND) >= (BYTES_PER_SEND - 1)

\* (result.len() % BYTES_PER_SEND) >= (BYTES_PER_SEND - 2)
AtBlockEnd(res) == (Len(res) % BYTES_PER_SEND) >= (BYTES_PER_SEND - 2)

\* mutant of CheckedAdd1: count.wrapping_add(1)
WrappingAdd1(cnt) == Some((cnt + 1) % (U8_MAX + 1))

\* count.checked_add(1)
CheckedAdd1(cnt) == IF cnt + 1 <= U8_MAX THEN Some(cnt + 1) ELSE None

\* rle_encode is entered with some input; no queue exists
RleInit ==
    /\ rle_plan \in RlePlans
    /\ indexes = <<>>
    /\ result = <<>>
    /\ count = 0
    /\ current_value = None
    /\ rle_pc = "loop"
    /\ triples = {}
    /\ q = <<>>
    /\ rcv_pc = "idle"
    /\ rcv_op = "none"
    /\ nsent = 0
    /\ sent = <<>>
    /\ replaced = {}
    /\ received = <<>>
    /\ last = [op |-> "none", pred |-> "none", val |-> <<>>, ret |-> <<>>,
               qbefore |-> <<>>, rbefore |-> "idle"]
    /\ poisoned = FALSE
    /\ ui_pc = "running"
    /\ worker_pc = "recv"
    /\ worker_msg = <<>>
    /\ so_args = [pixfmt |-> [kind |-> "Auto", color |-> "Indexed"],
                  rle_compression |-> FALSE, palette |-> <<>>,
                  width |-> 0, height |-> 0, indexes |-> <<>>]
    /\ so_pc = "idle"
    /\ so_ret = "none"
    /\ sock = "none"
    /\ bitdepth = 0
    /\ color = "none"
    /\ tx_indexes = <<>>
    /\ appmsgs = <<>>
    /\ ui_seen = 0
    /\ win = "none"
    /\ cancel_flag = FALSE
    /\ cancel_at = <<>>
    /\ tx_pc = "none"
    /\ tx_chunk = 0
    /\ tx_clk = TRUE
    /\ tx_end = "none"
    /\ tx_trace = <<>>
    /\ wire = <<>>
    /\ progress_threads = {}
    /\ progressbar = NoProgress
    /\ progress_hi = 0
    /\ pk_args = NoPack
    /\ pk_out = <<>>
    /\ pk_pc = "idle"
    /\ processed_image = None
    /\ sent_image = None

\* loop iteration, first branch: the output is at the last two bytes of a block
RleBoundary ==
    /\ rle_pc = "loop"
    /\ \E value \in NextBytes(rle_plan, Len(indexes) + 1) :
        /\ AtBlockEnd(result)
        /\ indexes' = Append(indexes, value)
        /\ IF count # 1 \/ current_value = None
           THEN /\ rle_pc' = "panic"
                /\ UNCHANGED <<result, current_value, count>>
           ELSE /\ result' = Append(result, Unwrap(current_value))
                /\ current_value' = Some(value)
                /\ count' = 1
                /\ rle_pc' = "loop"
    /\ UNCHANGED <<rle_plan, triples, mqVars, appVars, oscVars, packVars, imgVars>>

\* loop iteration, second branch: current_value == None
RleFirst ==
    /\ rle_pc = "loop"
    /\ \E value \in NextBytes(rle_plan, Len(indexes) + 1) :
        /\ ~AtBlockEnd(result)
        /\ current_value = None
        /\ indexes' = Append(indexes, value)
        /\ current_value' = Some(value)
        /\ count' = 1
    /\ UNCHANGED <<rle_plan, result, rle_pc, triples, mqVars, appVars, oscVars, packVars, imgVars>>

\* loop iteration, third branch, count.checked_add(1) is Some(x)
RleSame ==
    /\ rle_pc = "loop"
    /\ \E value \in NextBytes(rle_plan, Len(indexes) + 1) :
        /\ ~AtBlockEnd(result)
        /\ current_value # None
        /\ value = Unwrap(current_value)
        /\ CheckedAdd1(count) # None
        /\ indexes' = Append(indexes, value)
        /\ count' = Unwrap(CheckedAdd1(count))
    /\ UNCHANGED <<rle_plan, result, current_value, rle_pc, triples, mqVars, appVars, oscVars, packVars, imgVars>>

\* mutant of RleOverflow: when the count is full the run is counted anew
\* without the full triple being pushed
RleOverflowDropsTriple ==
    /\ rle_pc = "loop"
    /\ \E value \in NextBytes(rle_plan, Len(indexes) + 1) :
        /\ ~AtBlockEnd(result)
        /\ current_value # None
        /\ value = Unwrap(current_value)
        /\ CheckedAdd1(count) = None
        /\ indexes' = Append(indexes, value)
        /\ count' = 1
    /\ UNCHANGED <<rle_plan, result, triples, current_value, rle_pc, mqVars, appVars, oscVars, packVars, imgVars>>

\* loop iteration, third branch, count.checked_add(1) is None
RleOverflow ==
    /\ rle_pc = "loop"
    /\ \E value \in NextBytes(rle_plan, Len(indexes) + 1) :
        /\ ~AtBlockEnd(result)
        /\ current_value # None
        /\ value = Unwrap(current_value)
        /\ CheckedAdd1(count) = None
        /\ indexes' = Append(indexes, value)
        /\ result' = result \o <<value, value, count>>
        /\ triples' = triples \cup {Len(result)}
        /\ count' = 1
    /\ UNCHANGED <<rle_plan, current_value, rle_pc, mqVars, appVars, oscVars, packVars, imgVars>>

\* loop iteration, last branch: maybe_push(.., value)
RleDiff ==
    /\ rle_pc = "loop"
    /\ \E value \in NextBytes(rle_plan, Len(indexes) + 1) :
        /\ ~AtBlockEnd(result)
        /\ current_value # None
        /\ value # Unwrap(current_value)
        /\ indexes' = Append(indexes, value)
        /\ LET r == MaybePush(result, current_value, count, value) IN
            /\ result' = r.result
            /\ current_value' = r.current_value
            /\ count' = r.count
            /\ triples' = triples \cup r.triple
            /\ rle_pc' = IF r.panic THEN "panic" ELSE "loop"
    /\ UNCHANGED <<rle_plan, mqVars, appVars, oscVars, packVars, imgVars>>

\* the input ends here: maybe_push(.., 0) after the loop, then return result
RleFinish ==
    /\ rle_pc = "loop"
    /\ LET r == MaybePush(result, current_value, count, 0) IN
        /\ result' = r.result
        /\ current_value' = r.current_value
        /\ count' = r.count
        /\ triples' = triples \cup r.triple
        /\ rle_pc' = IF r.panic THEN "panic" ELSE "done"
    /\ UNCHANGED <<rle_plan, indexes, mqVars, appVars, oscVars, packVars, imgVars>>

RleNext ==
    \/ RleBoundary
    \/ RleFirst
    \/ RleSame
    \/ RleOverflow
    \/ RleDiff
    \/ RleFinish

(***************************************************************************)
(* The decoder the specification describes for the receiving side: two     *)
(* equal consecutive bytes followed by a count byte form a run, and the    *)
(* bytes at offsets BYTES_PER_SEND-2 and BYTES_PER_SEND-1 of every block   *)
(* are always literal.                                                     *)
(***************************************************************************)
Repeat(v, n) == [i \in 1 .. n |-> v]

RECURSIVE DecodeFrom(_, _)
DecodeFrom(b, p) ==
    IF p > Len(b) THEN <<>>
    ELSE IF /\ ((p - 1) % BYTES_PER_SEND) + 2 < BYTES_PER_SEND - 2
            /\ p + 2 <= Len(b)
            /\ b[p] = b[p + 1]
         THEN Repeat(b[p], b[p + 2]) \o DecodeFrom(b, p + 3)
         ELSE <<b[p]>> \o DecodeFrom(b, p + 1)

Decode(b) == DecodeFrom(b, 1)

(***************************************************************************)
(* MessageQueueSender / MessageQueueReceiver.  Every operation locks the   *)
(* mutex on entry and holds it until it returns or parks on the condition  *)
(* variable, so a critical section is one atomic step.                     *)
(***************************************************************************)
\* BgMessage::is_update
IsUpdate(v) == v.kind = "UpdateImage"

\* the predicates handed to send_or_replace_if
Preds == {"is_update", "always", "never"}

Pred(p, x) ==
    CASE p = "is_update" -> IsUpdate(x)
      [] p = "always"    -> TRUE
      [] p = "never"     -> FALSE

Last(s) == s[Len(s)]

Range(s) == {s[i] : i \in 1 .. Len(s)}

\* send: q.push_back(val)
SendQ(qq, v) == Append(qq, v)

SendNotifies(qq) == TRUE

\* mutant of SendOrReplaceQ: the value is always appended
SendOrReplaceAppends(qq, v) == Append(qq, v)

\* send_or_replace: match q.back_mut()
SendOrReplaceQ(qq, v) ==
    IF qq # <<>> THEN [qq EXCEPT ![Len(qq)] = v] ELSE Append(qq, v)

SendOrReplaceNotifies(qq) == qq = <<>>

\* mutant of SendOrReplaceIfQ: the predicate is not consulted
SendOrReplaceIfIgnoresPred(qq, p, v) ==
    IF qq # <<>> THEN [qq EXCEPT ![Len(qq)] = v] ELSE Append(qq, v)

\* send_or_replace_if: match q.back_mut(), if pred(x)
SendOrReplaceIfQ(qq, p, v) ==
    IF qq # <<>>
    THEN IF Pred(p, Last(qq)) THEN [qq EXCEPT ![Len(qq)] = v] ELSE Append(qq, v)
    ELSE Append(qq, v)

SendOrReplaceIfNotifies(qq, p) ==
    IF qq # <<>> THEN ~Pred(p, Last(qq)) ELSE TRUE

\* mutant of NotifyAll: the notification is lost
NotifyAllLost(pc, notifies) == pc

\* Condvar::notify_all: a receiver parked on the condition variable is woken
NotifyAll(pc, notifies) == IF notifies /\ pc = "waiting" THEN "woken" ELSE pc

\* mutant of MustWait: the condition is inverted
MustWaitInverted(qq) == qq # <<>>

\* wait_while's condition: |vd| vd.is_empty()
MustWait(qq) == qq = <<>>

\* mutant of PopFront: the newest element is taken (pop_back)
PopBack(qq) ==
    IF qq = <<>> THEN [ret |-> <<>>, rest |-> <<>>, panic |-> TRUE]
    ELSE [ret |-> <<qq[Len(qq)]>>, rest |-> SubSeq(qq, 1, Len(qq) - 1),
          panic |-> FALSE]

\* guard.pop_front().unwrap()
PopFront(qq) ==
    IF qq = <<>> THEN [ret |-> <<>>, rest |-> <<>>, panic |-> TRUE]
    ELSE [ret |-> <<Head(qq)>>, rest |-> Tail(qq), panic |-> FALSE]

\* mutant of DrainAll: only the oldest element is taken
DrainOne(qq) ==
    IF qq = <<>> THEN [ret |-> <<>>, rest |-> <<>>, panic |-> FALSE]
    ELSE [ret |-> <<Head(qq)>>, rest |-> Tail(qq), panic |-> FALSE]

\* guard.drain(..).collect()
DrainAll(qq) == [ret |-> qq, rest |-> <<>>, panic |-> FALSE]

\* the outcome recorded for a call that returned Err(SendError) / Err(RecvError)
ErrOf(op) ==
    CASE op = "send"               -> "send_err"
      [] op = "send_or_replace"    -> "send_or_replace_err"
      [] op = "send_or_replace_if" -> "send_or_replace_if_err"
      [] op = "recv"               -> "recv_err"
      [] op = "drain"              -> "drain_err"

ErrOps == {"send_err", "send_or_replace_err", "send_or_replace_if_err",
           "recv_err", "drain_err"}

\* mutant of LockFails: the poison is ignored, as with PoisonError::into_inner
LockNeverFails(p) == FALSE

\* self.queue.0.lock() is Err exactly when the mutex is poisoned; so is the
\* re-lock inside Condvar::wait_while
LockFails(p) == p

NoStep == [op |-> "none", pred |-> "none", val |-> <<>>, ret |-> <<>>,
           qbefore |-> <<>>, rbefore |-> "idle"]

\* mq(): an empty queue, the receiver not yet inside a call; in the
\* application the UI runs its event loop and the worker is about to call
\* recv(); rle_encode is not running
MqInit ==
    /\ q = <<>>
    /\ rcv_pc = "idle"
    /\ rcv_op = "none"
    /\ nsent = 0
    /\ sent = <<>>
    /\ replaced = {}
    /\ received = <<>>
    /\ last = NoStep
    /\ poisoned = FALSE
    /\ ui_pc = "running"
    /\ worker_pc = "recv"
    /\ worker_msg = <<>>
    /\ rle_plan = [lits |-> 0, run |-> 0]
    /\ indexes = <<>>
    /\ result = <<>>
    /\ count = 0
    /\ current_value = None
    /\ rle_pc = "done"
    /\ triples = {}
    /\ so_args = [pixfmt |-> [kind |-> "Auto", color |-> "Indexed"],
                  rle_compression |-> FALSE, palette |-> <<>>,
                  width |-> 0, height |-> 0, indexes |-> <<>>]
    /\ so_pc = "idle"
    /\ so_ret = "none"
    /\ sock = "none"
    /\ bitdepth = 0
    /\ color = "none"
    /\ tx_indexes = <<>>
    /\ appmsgs = <<>>
    /\ ui_seen = 0
    /\ win = "none"
    /\ cancel_flag = FALSE
    /\ cancel_at = <<>>
    /\ tx_pc = "none"
    /\ tx_chunk = 0
    /\ tx_clk = TRUE
    /\ tx_end = "none"
    /\ tx_trace = <<>>
    /\ wire = <<>>
    /\ progress_threads = {}
    /\ progressbar = NoProgress
    /\ progress_hi = 0
    /\ pk_args = NoPack
    /\ pk_out = <<>>
    /\ pk_pc = "idle"
    /\ processed_image = None
    /\ sent_image = None

\* one call of send / send_or_replace / send_or_replace_if with value v
QueueSend(op, p, v) ==
    LET qn == CASE op = "send"               -> SendQ(q, v)
                [] op = "send_or_replace"    -> SendOrReplaceQ(q, v)
                [] op = "send_or_replace_if" -> SendOrReplaceIfQ(q, p, v)
        nt == CASE op = "send"               -> SendNotifies(q)
                [] op = "send_or_replace"    -> SendOrReplaceNotifies(q)
                [] op = "send_or_replace_if" -> SendOrReplaceIfNotifies(q, p)
    IN  IF LockFails(poisoned)
        THEN /\ last' = [op |-> ErrOf(op), pred |-> p, val |-> <<v>>, ret |-> <<>>,
                         qbefore |-> q, rbefore |-> rcv_pc]
             /\ UNCHANGED <<q, rcv_pc, rcv_op, nsent, sent, replaced, received,
                            poisoned>>
        ELSE /\ nsent < MaxSends
             /\ q' = qn
             /\ rcv_pc' = NotifyAll(rcv_pc, nt)
             /\ nsent' = nsent + 1
             /\ sent' = Append(sent, v)
             /\ replaced' = replaced \cup (Range(q) \ Range(qn))
             /\ last' = [op |-> op, pred |-> p, val |-> <<v>>, ret |-> <<>>,
                         qbefore |-> q, rbefore |-> rcv_pc]
             /\ UNCHANGED <<rcv_op, received, poisoned>>

\* the value a sender builds: its kind, and the sequence number of the send,
\* which tells apart two messages of one kind
Msg(kind) == [kind |-> kind, id |-> nsent + 1]

\* with the lock held and the wait_while condition evaluated: park, or take
WaitOrTake(op) ==
    IF LockFails(poisoned)
    THEN /\ rcv_pc' = "idle"
         /\ rcv_op' = "none"
         /\ last' = [op |-> ErrOf(op), pred |-> "none", val |-> <<>>, ret |-> <<>>,
                     qbefore |-> q, rbefore |-> rcv_pc]
         /\ UNCHANGED <<q, received>>
    ELSE IF MustWait(q)
    THEN /\ rcv_pc' = "waiting"
         /\ rcv_op' = op
         /\ last' = [op |-> "wait", pred |-> "none", val |-> <<>>, ret |-> <<>>,
                     qbefore |-> q, rbefore |-> rcv_pc]
         /\ UNCHANGED <<q, received>>
    ELSE LET r == IF op = "recv" THEN PopFront(q) ELSE DrainAll(q) IN
         /\ q' = r.rest
         /\ received' = received \o r.ret
         /\ rcv_pc' = IF r.panic THEN "panic" ELSE "idle"
         /\ rcv_op' = "none"
         /\ last' = [op |-> op, pred |-> "none", val |-> <<>>, ret |-> r.ret,
                     qbefore |-> q, rbefore |-> rcv_pc]

\* recv() or drain() is called: wait_until_nonempty locks and calls wait_while
RecvCall(op) ==
    /\ rcv_pc = "idle"
    /\ WaitOrTake(op)
    /\ UNCHANGED <<nsent, sent, replaced, poisoned>>

\* the parked receiver was woken: it re-locks and wait_while checks again
RecvWoken ==
    /\ rcv_pc = "woken"
    /\ WaitOrTake(rcv_op)
    /\ UNCHANGED <<nsent, sent, replaced, poisoned>>

\* Condvar::wait may return without a notification
SpuriousWake ==
    /\ rcv_pc = "waiting"
    /\ rcv_pc' = "woken"
    /\ last' = [op |-> "wake", pred |-> "none", val |-> <<>>, ret |-> <<>>,
                qbefore |-> q, rbefore |-> rcv_pc]
    /\ UNCHANGED <<q, rcv_op, nsent, sent, replaced, received, poisoned>>

\* send_or_replace_if on a non-empty queue calls pred(x) with the guard held;
\* a pred that panics unwinds through the guard, which poisons the mutex.  The
\* queue is not touched and nobody is notified.
PredPanics ==
    /\ ~LockFails(poisoned)
    /\ q # <<>>
    /\ poisoned' = TRUE
    /\ last' = [op |-> "panic", pred |-> "panics", val |-> <<>>, ret |-> <<>>,
                qbefore |-> q, rbefore |-> rcv_pc]
    /\ UNCHANGED <<q, rcv_pc, rcv_op, nsent, sent, replaced, received>>

\* the kinds of message the senders of the stand-alone queue send
MqKinds == {"UpdateImage", "ClearImage"}

(***************************************************************************)
(* The application: the UI thread's callbacks and the background worker    *)
(***************************************************************************)
\* mutant of EnqueueUpdate: the request is enqueued with send
EnqueueUpdateBySend(v) == QueueSend("send", "none", v)

\* send_updateimage / test-mq's update loop:
\* bg.send_or_replace_if(BgMessage::is_update, msg)
EnqueueUpdate(v) == QueueSend("send_or_replace_if", "is_update", v)

\* after the event loop: bg.send_or_replace(BgMessage::Quit)
EnqueueQuit(v) == QueueSend("send_or_replace", "none", v)

\* openbtn callback
OpenBtn ==
    /\ ui_pc = "running"
    /\ QueueSend("send_or_replace_if", "is_update", Msg("LoadImage"))
    /\ UNCHANGED <<appVars, rleVars, oscVars, packVars, imgVars>>

\* savebtn callback
SaveBtn ==
    /\ ui_pc = "running"
    /\ QueueSend("send", "none", Msg("SaveImage"))
    /\ UNCHANGED <<appVars, rleVars, oscVars, packVars, imgVars>>

\* clearbtn callback
ClearBtn ==
    /\ ui_pc = "running"
    /\ QueueSend("send_or_replace_if", "is_update", Msg("ClearImage"))
    /\ UNCHANGED <<appVars, rleVars, oscVars, packVars, imgVars>>

\* the callbacks of the toggles, sliders, inputs and choices: send_updateimage
WidgetChanged ==
    /\ ui_pc = "running"
    /\ EnqueueUpdate(Msg("UpdateImage"))
    /\ UNCHANGED <<appVars, rleVars, oscVars, packVars, imgVars>>

\* send_osc_btn callback
SendOscBtn ==
    /\ ui_pc = "running"
    /\ QueueSend("send", "none", Msg("SendOSC"))
    /\ UNCHANGED <<appVars, rleVars, oscVars, packVars, imgVars>>

\* app.wait() returned false: Quit is sent and the worker is joined
Shutdown ==
    /\ ui_pc = "running"
    /\ EnqueueQuit(Msg("Quit"))
    /\ ui_pc' = "joining"
    /\ UNCHANGED <<worker_pc, worker_msg, rleVars, oscVars, packVars, imgVars>>

\* the worker's loop: receiver.recv(), one step of it.  When recv returns
\* Err the worker sends an Alert to the UI thread and continues with the
\* next iteration of the loop.
WorkerRecv ==
    /\ worker_pc = "recv"
    /\ \/ RecvCall("recv")
       \/ RecvWoken
       \/ SpuriousWake
    /\ IF last'.op = "recv" /\ last'.ret # <<>>
       THEN /\ worker_pc' = "handling"
            /\ worker_msg' = last'.ret
            /\ UNCHANGED appmsgs
       ELSE IF last'.op = ErrOf("recv")
       THEN /\ Cardinality({i \in DOMAIN appmsgs : appmsgs[i] = "Alert"})
                    < MaxAlerts
            /\ appmsgs' = Append(appmsgs, "Alert")
            /\ UNCHANGED <<worker_pc, worker_msg>>
       ELSE UNCHANGED <<worker_pc, worker_msg, appmsgs>>
    /\ UNCHANGED <<ui_seen, win, cancel_flag, cancel_at>>
    /\ UNCHANGED <<ui_pc, rleVars, soVars, txVars, packVars, imgVars>>

WorkerLoops ==
    /\ worker_pc' = "recv"
    /\ worker_msg' = <<>>
    /\ UNCHANGED <<ui_pc, rleVars, oscVars, packVars, imgVars>>

\* BgMessage::Quit => break
WorkerQuit ==
    /\ worker_pc = "handling"
    /\ worker_msg[1].kind = "Quit"
    /\ worker_pc' = "finished"
    /\ worker_msg' = <<>>
    /\ UNCHANGED <<ui_pc, rleVars, mqVars, oscVars, packVars, imgVars>>

\* BgMessage::LoadImage succeeded: send_updateimage(&appmsg, &sender)
WorkerLoadOk ==
    /\ worker_pc = "handling"
    /\ worker_msg[1].kind = "LoadImage"
    /\ EnqueueUpdate(Msg("UpdateImage"))
    /\ WorkerLoops

\* BgMessage::LoadImage or BgMessage::UpdateImage failed:
\* print_err(sender.send(BgMessage::ClearImage))
WorkerFailed ==
    /\ worker_pc = "handling"
    /\ worker_msg[1].kind \in {"LoadImage", "UpdateImage"}
    /\ QueueSend("send", "none", Msg("ClearImage"))
    /\ WorkerLoops

\* every handler outcome that sends nothing to the queue
WorkerHandled ==
    /\ worker_pc = "handling"
    /\ worker_msg[1].kind # "Quit"
    /\ WorkerLoops
    /\ UNCHANGED mqVars

AppNext ==
    \/ OpenBtn
    \/ SaveBtn
    \/ ClearBtn
    \/ WidgetChanged
    \/ SendOscBtn
    \/ Shutdown
    \/ WorkerRecv
    \/ WorkerQuit
    \/ WorkerLoadOk
    \/ WorkerFailed
    \/ WorkerHandled

(***************************************************************************)
(* The stand-alone queue: one receiver thread, and sender threads whose     *)
(* calls interleave in every order the mutex allows                        *)
(***************************************************************************)
MqSend ==
    /\ \E k \in MqKinds : QueueSend("send", "none", Msg(k))
    /\ UNCHANGED <<appVars, rleVars, oscVars, packVars, imgVars>>

MqSendOrReplace ==
    /\ \E k \in MqKinds : QueueSend("send_or_replace", "none", Msg(k))
    /\ UNCHANGED <<appVars, rleVars, oscVars, packVars, imgVars>>

MqSendOrReplaceIf ==
    /\ \E k \in MqKinds, p \in Preds : QueueSend("send_or_replace_if", p, Msg(k))
    /\ UNCHANGED <<appVars, rleVars, oscVars, packVars, imgVars>>

MqRecv ==
    /\ RecvCall("recv")
    /\ UNCHANGED <<appVars, rleVars, oscVars, packVars, imgVars>>

MqDrain ==
    /\ RecvCall("drain")
    /\ UNCHANGED <<appVars, rleVars, oscVars, packVars, imgVars>>

MqWoken ==
    /\ RecvWoken
    /\ UNCHANGED <<appVars, rleVars, oscVars, packVars, imgVars>>

MqSpuriousWake ==
    /\ SpuriousWake
    /\ UNCHANGED <<appVars, rleVars, oscVars, packVars, imgVars>>

MqPredPanics ==
    /\ PredPanics
    /\ UNCHANGED <<appVars, rleVars, oscVars, packVars, imgVars>>

MqNext ==
    \/ MqSend
    \/ MqSendOrReplace
    \/ MqSendOrReplaceIf
    \/ MqRecv
    \/ MqDrain
    \/ MqWoken
    \/ MqSpuriousWake
    \/ MqPredPanics

\* the application with a queue whose lock can be poisoned: at any time a
\* thread that holds the lock of the non-empty queue may panic
AppPoisonNext ==
    \/ OpenBtn
    \/ SaveBtn
    \/ ClearBtn
    \/ WidgetChanged
    \/ SendOscBtn
    \/ Shutdown
    \/ WorkerRecv
    \/ WorkerQuit
    \/ WorkerLoadOk
    \/ WorkerFailed
    \/ WorkerHandled
    \/ MqPredPanics

(***************************************************************************)
(* send_osc: constants, inputs and the pure functions of the set-up        *)
(***************************************************************************)
PALETTE_COLORS_PER_SEND == (BYTES_PER_SEND - 1) \div 3

SETPIXEL_COMMAND == 128

PALETTEWRITE_COMMAND == 192

BITDEPTH_PIXEL == 2

PALETTECTRL_PIXEL == 3

PALETTEWRIDX_PIXEL == 4

COMPRESSIONCTRL_PIXEL == 5

\* usize::div_ceil
DivCeil(a, b) == (a + b - 1) \div b

\* mutant of COLORS_AT_A_TIME: the command byte is not accounted for
ColorsAtATimeNoCommandByte == DivCeil(BYTES_PER_SEND, 3)

COLORS_AT_A_TIME == DivCeil(BYTES_PER_SEND, 3) - 1

Min(a, b) == IF a <= b THEN a ELSE b

Colors == {"Indexed", "Grayscale"}

\* PixFmt::VALUES
PixFmts == [kind : {"Auto", "Bpp1", "Bpp2", "Bpp4", "Bpp8"}, color : Colors]

\* the palette handed to send_osc: n colours, each <<r, g, b>>
PaletteOf(n) ==
    [i \in 1 .. n |-> <<(3 * i) % 256, (3 * i + 1) % 256, (3 * i + 2) % 256>>]

\* the index array handed to send_osc: n pixels in runs of three
Image(n) == [i \in 1 .. n |-> ((i - 1) \div 3) % 4]

\* palette sizes around the limits of the match on palette.len()
PaletteLens == {0, 1, 2, 3, 4, 5, 16, 17, 256, 257}

\* the calls of send_osc whose set-up is explored: any width, height and
\* index count up to MaxDim, any pixel format, the palette sizes above
SetupArgs ==
    {[pixfmt |-> f, rle_compression |-> r, palette |-> PaletteOf(p),
      width |-> w, height |-> h, indexes |-> Image(n)] :
        f \in PixFmts, r \in BOOLEAN, p \in PaletteLens,
        w \in 0 .. MaxDim, h \in 0 .. MaxDim, n \in 0 .. MaxDim * MaxDim}

\* the calls of send_osc whose transmission is explored: a square image of
\* one pixel or of MaxSide x MaxSide pixels, a palette of one or of two chunks
TxArgs ==
    {[pixfmt |-> f, rle_compression |-> r, palette |-> PaletteOf(p),
      width |-> w, height |-> w, indexes |-> Image(w * w)] :
        f \in PixFmts, r \in BOOLEAN, p \in {2, MaxPalette},
        w \in {1, MaxSide}}

\* palette sizes around the limits of the match on palette.len() and around
\* the multiples of COLORS_AT_A_TIME
RunPaletteLens == PaletteLens \cup {7, 8, 14, 15}

\* image sizes whose 8-bit stream is shorter than, as long as and longer than
\* one and two frames
RunDims == {<<1, 1>>, <<24, 1>>, <<5, 5>>, <<24, 2>>, <<7, 7>>}

\* the largest palette whose upload is followed
MaxUpload == 17

\* the calls of send_osc whose transmission is compared with the protocol: a
\* one-pixel image with any of the palette sizes, or any of the image sizes
\* with a two-colour palette; palettes of more than MaxUpload colours are sent
\* in grayscale only
RunArgs ==
    {a \in {[pixfmt |-> f, rle_compression |-> r, palette |-> PaletteOf(p),
             width |-> d[1], height |-> d[2], indexes |-> Image(d[1] * d[2])] :
                f \in PixFmts, r \in BOOLEAN, p \in RunPaletteLens,
                d \in RunDims} :
        /\ Len(a.palette) = 2 \/ a.width * a.height = 1
        /\ Len(a.palette) <= MaxUpload \/ a.pixfmt.color = "Grayscale"}

\* mutant of ArgsOk: the length is not compared with width * height
ArgsOkNoLengthCheck(args) ==
    ~(Len(args.indexes) = 0 \/ args.width = 0 \/ args.height = 0)

\* the two argument checks at the top of send_osc
ArgsOk(args) ==
    /\ ~(Len(args.indexes) = 0 \/ args.width = 0 \/ args.height = 0)
    /\ ~(Len(args.indexes) # args.width * args.height)

\* mutant of AutoBitDepth: the limits are exclusive
AutoBitDepthExclusive(n) ==
    IF n < 2 THEN Some(1)
    ELSE IF n < 4 THEN Some(2)
    ELSE IF n < 16 THEN Some(4)
    ELSE IF n < 256 THEN Some(8)
    ELSE None

\* match palette.len() { ..=2 => 1, ..=4 => 2, ..=16 => 4, ..=256 => 8, _ => Err }
AutoBitDepth(n) ==
    IF n <= 2 THEN Some(1)
    ELSE IF n <= 4 THEN Some(2)
    ELSE IF n <= 16 THEN Some(4)
    ELSE IF n <= 256 THEN Some(8)
    ELSE None

\* let (bitdepth, color) = match options.pixfmt
ResolvePixFmt(pixfmt, palette_len) ==
    CASE pixfmt.kind = "Auto" -> AutoBitDepth(palette_len)
      [] pixfmt.kind = "Bpp1" -> Some(1)
      [] pixfmt.kind = "Bpp2" -> Some(2)
      [] pixfmt.kind = "Bpp4" -> Some(4)
      [] pixfmt.kind = "Bpp8" -> Some(8)

\* mutant of Chunks: the short final chunk is dropped
ChunksDropShort(s, n) ==
    [i \in 1 .. (Len(s) \div n) |-> SubSeq(s, (i - 1) * n + 1, i * n)]

\* slice::chunks(n)
Chunks(s, n) ==
    [i \in 1 .. DivCeil(Len(s), n) |->
        SubSeq(s, (i - 1) * n + 1, Min(i * n, Len(s)))]

\* slice::chunks_exact(n)
ChunksExact(s, n) ==
    [i \in 1 .. (Len(s) \div n) |-> SubSeq(s, (i - 1) * n + 1, i * n)]

RECURSIVE Flatten(_)
Flatten(ss) == IF ss = <<>> THEN <<>> ELSE Head(ss) \o Flatten(Tail(ss))

\* mutant of Mask: the index is used whole
MaskNothing(v, bd) == v

\* v & 0b1, v & 0b11, v & 0b1111: the low bd bits of an index
Mask(v, bd) == v % (2 ^ bd)

\* p.get(0).map_or(0, |v| (v & mask) << ..) | p.get(1)... : the pixels of p,
\* each cut to bd bits, from the most significant bits down
RECURSIVE PackByte(_, _, _)
PackByte(p, bd, j) ==
    IF j > Len(p) THEN 0
    ELSE Mask(p[j], bd) * (2 ^ (8 - bd * j)) + PackByte(p, bd, j + 1)

\* mutant of PackBytesClone: the array is packed without regard to its rows
PackBytesCloneAcrossRows(ix, width, bd) ==
    IF bd = 8 THEN ix
    ELSE [c \in 1 .. Len(Chunks(ix, 8 \div bd)) |->
            PackByte(Chunks(ix, 8 \div bd)[c], bd, 1)]

\* fn pack_bytes_clone(indexes, width, bitdepth)
PackBytesClone(ix, width, bd) ==
    IF bd = 8 THEN ix
    ELSE Flatten([l \in 1 .. Len(ChunksExact(ix, width)) |->
            LET line == ChunksExact(ix, width)[l]
                px   == Chunks(line, 8 \div bd)
            IN  [c \in 1 .. Len(px) |-> PackByte(px[c], bd, 1)]])

\* one iteration of rle_encode's loop on the state st
RleIter(st, value) ==
    IF st.panic THEN st
    ELSE IF AtBlockEnd(st.result) THEN
        IF st.count # 1 \/ st.current_value = None
        THEN [st EXCEPT !.panic = TRUE]
        ELSE [st EXCEPT !.result = Append(st.result, Unwrap(st.current_value)),
                        !.current_value = Some(value), !.count = 1]
    ELSE IF st.current_value = None THEN
        [st EXCEPT !.current_value = Some(value), !.count = 1]
    ELSE IF value = Unwrap(st.current_value) THEN
        IF CheckedAdd1(st.count) # None
        THEN [st EXCEPT !.count = Unwrap(CheckedAdd1(st.count))]
        ELSE [st EXCEPT !.result = st.result \o <<value, value, st.count>>,
                        !.count = 1]
    ELSE LET r == MaybePush(st.result, st.current_value, st.count, value) IN
         [result |-> r.result, current_value |-> r.current_value,
          count |-> r.count, panic |-> r.panic]

RECURSIVE RleLoop(_, _, _)
RleLoop(st, b, i) ==
    IF i > Len(b) THEN st ELSE RleLoop(RleIter(st, b[i]), b, i + 1)

\* fn rle_encode(indexes) as a function
RleEncode(b) ==
    LET st == RleLoop([result |-> <<>>, current_value |-> None, count |-> 0,
                       panic |-> FALSE], b, 1)
    IN  MaybePush(st.result, st.current_value, st.count, 0).result

\* pack_bytes_clone, then rle_encode if options.rle_compression
Encode(args, bd) ==
    LET packed == PackBytesClone(args.indexes, args.width, bd)
    IN  IF args.rle_compression THEN RleEncode(packed) ELSE packed

(***************************************************************************)
(* pack_bytes_clone on its own                                             *)
(***************************************************************************)
\* the index values fed at bit depth bd: the smallest ones, the largest one
\* that fits, and one whose high bits are set
PackVals(bd) == {0, 1, 2, 2 ^ bd - 1, U8_MAX - 1}

\* the two values of the long rows
RowVals(bd) == {0, 2 ^ bd - 1}

\* the shapes of the short images: every width and height with at most
\* MaxPixels pixels
PackShapes ==
    {d \in (1 .. MaxPixels) \X (1 .. MaxPixels) : d[1] * d[2] <= MaxPixels}

\* the calls of pack_bytes_clone that are explored: send_osc calls it with
\* width >= 1, width * height indexes and a bit depth of 1, 2, 4 or 8.  Short
\* images take every combination of PackVals, one-row images of MaxRow - 1
\* and MaxRow pixels every combination of RowVals.
PackArgs ==
    UNION {UNION {[indexes : [1 .. d[1] * d[2] -> PackVals(bd)],
                   width : {d[1]}, bitdepth : {bd}] : d \in PackShapes}
           \cup UNION {[indexes : [1 .. w -> RowVals(bd)],
                        width : {w}, bitdepth : {bd}] : w \in {MaxRow - 1, MaxRow}}
           : bd \in {1, 2, 4, 8}}

\* one arm of pack_bytes_clone's match on bitdepth
PackArm(bd) ==
    /\ pk_pc = "call"
    /\ pk_args.bitdepth = bd
    /\ pk_out' = PackBytesClone(pk_args.indexes, pk_args.width, bd)
    /\ pk_pc' = "done"
    /\ UNCHANGED pk_args

Pack1 ==
    /\ PackArm(1)
    /\ UNCHANGED <<rleVars, mqVars, appVars, oscVars, imgVars>>

Pack2 ==
    /\ PackArm(2)
    /\ UNCHANGED <<rleVars, mqVars, appVars, oscVars, imgVars>>

Pack4 ==
    /\ PackArm(4)
    /\ UNCHANGED <<rleVars, mqVars, appVars, oscVars, imgVars>>

Pack8 ==
    /\ PackArm(8)
    /\ UNCHANGED <<rleVars, mqVars, appVars, oscVars, imgVars>>

PackNext ==
    \/ Pack1
    \/ Pack2
    \/ Pack4
    \/ Pack8

(***************************************************************************)
(* send_osc: the messages of the protocol                                  *)
(***************************************************************************)

\* const fn vNumberToChar(n): b'0' + n up to 9, b'A' + (n - 10) above,
\* & 0x7f; the ASCII code of the register's character
vNumberToChar(n) == (IF n <= 9 THEN 48 + n ELSE 65 + (n - 10)) % 128

\* fn vStr(n): the buffer b"V0" with its second byte set to
\* vNumberToChar(n), as ASCII codes
vStr(n) == <<86, vNumberToChar(n)>>

\* the ASCII codes of the literal names "V0", "CLK" and "Reset"
Ascii(var) ==
    CASE var = "V0"    -> <<86, 48>>
      [] var = "CLK"   -> <<67, 76, 75>>
      [] var = "Reset" -> <<82, 101, 115, 101, 116>>

\* send_int(vStr(n), i): an Int message to the register of byte n, whose
\* name is vStr(n)
VMsg(n, i) == [addr |-> "V", reg |-> n, val |-> i, name |-> vStr(n)]

\* send_bool(var, b): a Bool message to CLK or Reset
BoolMsg(var, b) == [addr |-> var, reg |-> 0, val |-> b, name |-> Ascii(var)]

\* cmd.get(n).copied().unwrap_or_default()
Get(cmd, n) == IF n + 1 <= Len(cmd) THEN cmd[n + 1] ELSE 0

\* mutant of SendCmd: register n gets byte n + 1 of the command
SendCmdOffByOne(cmd) == [n \in 1 .. BYTES_PER_SEND |-> VMsg(n - 1, Get(cmd, n))]

\* send_cmd(cmd): the registers of bytes 0 .. BYTES_PER_SEND - 1 in order,
\* missing bytes sent as 0
SendCmd(cmd) == [n \in 1 .. BYTES_PER_SEND |-> VMsg(n - 1, Get(cmd, n - 1))]

\* mutant of BitDepthCode: the codes of 2 and 4 bits are exchanged
BitDepthCodeSwapped(bd) ==
    CASE bd = 1 -> 192
      [] bd = 2 -> 64
      [] bd = 4 -> 128
      [] bd = 8 -> 0

\* match bitdepth { 1 => 192, 2 => 128, 4 => 64, 8 => 0, _ => panic!(..) }
BitDepthCode(bd) ==
    CASE bd = 1 -> 192
      [] bd = 2 -> 128
      [] bd = 4 -> 64
      [] bd = 8 -> 0

\* the data array of one palette chunk: the command byte, then r, g, b of
\* each colour, the rest 0
PaletteData(chunk) ==
    [n \in 1 .. BYTES_PER_SEND |->
        IF n = 1 THEN PALETTEWRITE_COMMAND
        ELSE IF ((n - 2) \div 3) + 1 <= Len(chunk)
             THEN chunk[((n - 2) \div 3) + 1][((n - 2) % 3) + 1]
             ELSE 0]

\* palette.chunks(COLORS_AT_A_TIME)
PaletteChunks == Chunks(so_args.palette, COLORS_AT_A_TIME)

\* mutant of PixelChunks: a short final chunk is not sent
PixelChunksExactOnly == ChunksExact(tx_indexes, BYTES_PER_SEND)

\* indexes.chunks(BYTES_PER_SEND)
PixelChunks == Chunks(tx_indexes, BYTES_PER_SEND)

\* mutant of ResetPixelPointerSends: Reset is not raised
ResetPixelPointerNoReset == <<[VMsg(0, 0) EXCEPT !.name = Ascii("V0")]>>

\* send_int("V0", 0)?; send_bool("Reset", true)?
ResetPixelPointerSends ==
    <<[VMsg(0, 0) EXCEPT !.name = Ascii("V0")], BoolMsg("Reset", TRUE)>>

\* mutant of ClockedSteps: SetBitDepth does not call send_clk()
ClockedStepsWithoutBitDepth ==
    {"ResetPixelPointer", "SetCompressionMode",
     "ResetPaletteWriteIndex", "PaletteChunk", "EnablePaletteRead",
     "SetGrayscaleMode", "PixelChunk"}

\* the steps that end with send_clk()
ClockedSteps ==
    {"ResetPixelPointer", "SetCompressionMode", "SetBitDepth",
     "ResetPaletteWriteIndex", "PaletteChunk", "EnablePaletteRead",
     "SetGrayscaleMode", "PixelChunk"}

\* what a protocol step sends before its send_clk()
StepSends(step, n) ==
    CASE step = "ResetClock" ->
            <<BoolMsg("CLK", TRUE), BoolMsg("CLK", FALSE)>>
      [] step = "ResetPixelPointer" -> ResetPixelPointerSends
      [] step = "SetCompressionMode" ->
            SendCmd(<<SETPIXEL_COMMAND, COMPRESSIONCTRL_PIXEL, 0,
                      IF so_args.rle_compression THEN 255 ELSE 0, 0, 0, 0>>)
      [] step = "SetBitDepth" ->
            SendCmd(<<SETPIXEL_COMMAND, BITDEPTH_PIXEL, 0,
                      BitDepthCode(bitdepth), 0, 0, 0>>)
      [] step = "ResetPaletteWriteIndex" ->
            SendCmd(<<SETPIXEL_COMMAND, PALETTEWRIDX_PIXEL, 0, 0, 0, 0, 0>>)
      [] step = "PaletteChunk" -> SendCmd(PaletteData(PaletteChunks[n + 1]))
      [] step = "EnablePaletteRead" ->
            SendCmd(<<SETPIXEL_COMMAND, PALETTECTRL_PIXEL, 0, 255, 0, 0, 0>>)
      [] step = "SetGrayscaleMode" ->
            SendCmd(<<SETPIXEL_COMMAND, PALETTECTRL_PIXEL, 0, 0, 0, 0, 0>>)
      [] step = "ClearResetFlag" -> <<BoolMsg("Reset", FALSE)>>
      [] step = "PixelChunk" -> SendCmd(PixelChunks[n + 1])

\* mutant of StepMsgs: send_clk() sends the same level every time
StepMsgsClkStuck(step, n, clk) ==
    StepSends(step, n) \o
        (IF step \in ClockedSteps THEN <<BoolMsg("CLK", TRUE)>> ELSE <<>>)

\* every message of a step: its sends, then send_clk() with the current clk
StepMsgs(step, n, clk) ==
    StepSends(step, n) \o
        (IF step \in ClockedSteps THEN <<BoolMsg("CLK", clk)>> ELSE <<>>)

\* mutant of NextStep: the reset flag is cleared before the palette is set
NextStepClearsResetEarly(step, n) ==
    CASE step = "ResetClock" -> "ResetPixelPointer"
      [] step = "ResetPixelPointer" -> "SetCompressionMode"
      [] step = "SetCompressionMode" -> "SetBitDepth"
      [] step = "SetBitDepth" -> "ClearResetFlag"
      [] step = "ClearResetFlag" ->
            IF color = "Indexed" THEN "ResetPaletteWriteIndex"
            ELSE "SetGrayscaleMode"
      [] step = "ResetPaletteWriteIndex" ->
            IF Len(PaletteChunks) > 0 THEN "PaletteCheck" ELSE "EnablePaletteRead"
      [] step = "PaletteChunk" ->
            IF n + 1 < Len(PaletteChunks) THEN "PaletteCheck"
            ELSE "EnablePaletteRead"
      [] step \in {"EnablePaletteRead", "SetGrayscaleMode"} ->
            IF Len(PixelChunks) > 0 THEN "PixelCheck" ELSE "delete"
      [] step = "PixelChunk" ->
            IF n + 1 < Len(PixelChunks) THEN "PixelCheck" ELSE "delete"

\* the statement that follows a step that succeeded; "delete" is the end of
\* the closure with Ok(())
NextStep(step, n) ==
    CASE step = "ResetClock" -> "ResetPixelPointer"
      [] step = "ResetPixelPointer" -> "SetCompressionMode"
      [] step = "SetCompressionMode" -> "SetBitDepth"
      [] step = "SetBitDepth" ->
            IF color = "Indexed" THEN "ResetPaletteWriteIndex"
            ELSE "SetGrayscaleMode"
      [] step = "ResetPaletteWriteIndex" ->
            IF Len(PaletteChunks) > 0 THEN "PaletteCheck" ELSE "EnablePaletteRead"
      [] step = "PaletteChunk" ->
            IF n + 1 < Len(PaletteChunks) THEN "PaletteCheck"
            ELSE "EnablePaletteRead"
      [] step \in {"EnablePaletteRead", "SetGrayscaleMode"} -> "ClearResetFlag"
      [] step = "ClearResetFlag" ->
            IF Len(PixelChunks) > 0 THEN "PixelCheck" ELSE "delete"
      [] step = "PixelChunk" ->
            IF n + 1 < Len(PixelChunks) THEN "PixelCheck" ELSE "delete"

\* mutant of AfterSend: a failed send is ignored
AfterSendIgnoringError(step, n, failed) == NextStep(step, n)

\* the ? after every send: the first Err leaves the closure
AfterSend(step, n, failed) == IF failed THEN "report" ELSE NextStep(step, n)

\* mutant of OnCancel: the palette loop is left with break
OnCancelBreaks(step) ==
    IF step = "PaletteCheck" THEN "EnablePaletteRead" ELSE "delete"

\* if cancel_flag.load(..) { return Ok(()) }
OnCancel(step) == "delete"

\* mutant of CancelObserved: the flag is not looked at
CancelNeverObserved(flag) == FALSE

\* cancel_flag.load(Ordering::Relaxed)
CancelObserved(flag) == flag

\* mutant of AfterReport: the thread ends after the alert
AfterReportExits == "exited"

\* after the match on the closure's result the thread goes on to send
\* DeleteWindow
AfterReport == "delete"

\* the numbers of messages of an n-message step that may have been sent when
\* a send fails
FailAts(n) == {k \in 0 .. n - 1 : k <= MaxFailAt \/ k = n - 1}

(***************************************************************************)
(* send_osc: the set-up, run by the caller                                 *)
(***************************************************************************)
\* if indexes.len() == 0 || width == 0 || height == 0 { return Err(..) }
\* if indexes.len() != width * height { return Err(..) }
SoCheckArgs ==
    /\ so_pc = "entry"
    /\ IF ArgsOk(so_args)
       THEN so_pc' = "bind" /\ UNCHANGED so_ret
       ELSE so_pc' = "returned" /\ so_ret' = "err_args"
    /\ UNCHANGED <<so_args, sock, bitdepth, color, tx_indexes>>
    /\ UNCHANGED <<uiVars, txVars, otherVars>>

\* the outcomes of binding 127.0.0.1:9002: while the socket of a running
\* transmission is bound to it the bind fails; otherwise it succeeds, or
\* fails because another process holds the port
BindOutcomes(s) == IF s = "bound" THEN {FALSE} ELSE BOOLEAN

\* let sock = UdpSocket::bind(host_addr)?
SoBind ==
    /\ so_pc = "bind"
    /\ \E ok \in BindOutcomes(sock) :
        IF ok
        THEN sock' = "bound" /\ so_pc' = "pixfmt" /\ UNCHANGED so_ret
        ELSE so_pc' = "returned" /\ so_ret' = "err_bind" /\ UNCHANGED sock
    /\ UNCHANGED <<so_args, bitdepth, color, tx_indexes>>
    /\ UNCHANGED <<uiVars, txVars, otherVars>>

\* let (bitdepth, color) = match options.pixfmt { .. }; an early return drops
\* the socket
SoPixFmt ==
    /\ so_pc = "pixfmt"
    /\ LET r == ResolvePixFmt(so_args.pixfmt, Len(so_args.palette)) IN
        IF r = None
        THEN /\ so_pc' = "returned"
             /\ so_ret' = "err_palette"
             /\ sock' = "closed"
             /\ UNCHANGED <<bitdepth, color>>
        ELSE /\ so_pc' = "encode"
             /\ bitdepth' = Unwrap(r)
             /\ color' = so_args.pixfmt.color
             /\ UNCHANGED <<so_ret, sock>>
    /\ UNCHANGED <<so_args, tx_indexes>>
    /\ UNCHANGED <<uiVars, txVars, otherVars>>

\* let mut indexes = pack_bytes_clone(..); if options.rle_compression { .. }
SoEncode ==
    /\ so_pc = "encode"
    /\ tx_indexes' = Encode(so_args, bitdepth)
    /\ so_pc' = "window"
    /\ UNCHANGED <<so_args, so_ret, sock, bitdepth, color>>
    /\ UNCHANGED <<uiVars, txVars, otherVars>>

\* create_progressbar_window: a new cancel flag, false;
\* appmsg.send(AppMessage::CreateWindow(..))
SoRequestWindow ==
    /\ so_pc = "window"
    /\ appmsgs' = Append(appmsgs, "CreateWindow")
    /\ cancel_flag' = FALSE
    /\ cancel_at' = <<>>
    /\ so_pc' = "wait_window"
    /\ UNCHANGED <<so_args, so_ret, sock, bitdepth, color, tx_indexes>>
    /\ UNCHANGED <<ui_seen, win>>
    /\ UNCHANGED <<txVars, otherVars>>

\* the UI thread has run the closure of every CreateWindow sent so far, so
\* the window that is open is the one of the latest call of send_osc
WindowCreated ==
    /\ win = "open"
    /\ \A i \in DOMAIN appmsgs : appmsgs[i] = "CreateWindow" => i <= ui_seen

\* rx.recv() returned the window; thread::spawn(..); Ok(()).  The new thread
\* starts with its own clk = true and nothing sent on its socket.
SoSpawn ==
    /\ so_pc = "wait_window"
    /\ WindowCreated
    /\ so_pc' = "returned"
    /\ so_ret' = "ok"
    /\ tx_pc' = "ResetClock"
    /\ tx_chunk' = 0
    /\ tx_clk' = TRUE
    /\ tx_end' = "none"
    /\ tx_trace' = <<>>
    /\ wire' = <<>>
    /\ progress_threads' = {}
    /\ progressbar' = NoProgress
    /\ progress_hi' = 0
    /\ UNCHANGED <<so_args, sock, bitdepth, color, tx_indexes>>
    /\ UNCHANGED <<uiVars, otherVars>>

(***************************************************************************)
(* The UI thread's event loop, while app.wait() returns true, as far as     *)
(* send_osc is concerned                                                   *)
(***************************************************************************)
\* AppMessage::CreateWindow: f(&mut wind) sets the callbacks and sends the
\* window back; wind.show()
UiCreateWindow ==
    /\ ui_pc = "running"
    /\ ui_seen < Len(appmsgs)
    /\ appmsgs[ui_seen + 1] = "CreateWindow"
    /\ ui_seen' = ui_seen + 1
    /\ win' = "open"
    /\ UNCHANGED <<appmsgs, cancel_flag, cancel_at>>
    /\ UNCHANGED <<soVars, txVars, otherVars>>

\* AppMessage::Alert: dialog::alert_default
UiAlert ==
    /\ ui_pc = "running"
    /\ ui_seen < Len(appmsgs)
    /\ appmsgs[ui_seen + 1] = "Alert"
    /\ ui_seen' = ui_seen + 1
    /\ UNCHANGED <<appmsgs, win, cancel_flag, cancel_at>>
    /\ UNCHANGED <<soVars, txVars, otherVars>>

\* AppMessage::DeleteWindow: window.hide(); Window::delete(window)
UiDeleteWindow ==
    /\ ui_pc = "running"
    /\ ui_seen < Len(appmsgs)
    /\ appmsgs[ui_seen + 1] = "DeleteWindow"
    /\ ui_seen' = ui_seen + 1
    /\ win' = "deleted"
    /\ UNCHANGED <<appmsgs, cancel_flag, cancel_at>>
    /\ UNCHANGED <<soVars, txVars, otherVars>>

\* mutant of UiCancel: the callbacks toggle the flag
UiCancelToggles ==
    /\ ui_pc = "running"
    /\ WindowCreated
    /\ cancel_flag' = ~cancel_flag
    /\ cancel_at' = <<[steps |-> Len(tx_trace), msgs |-> Len(wire)]>>
    /\ UNCHANGED <<appmsgs, ui_seen, win>>
    /\ UNCHANGED <<soVars, txVars, otherVars>>

\* the window's close callback or the Cancel button's callback:
\* cancel_flag.store(true, Ordering::Relaxed)
UiCancel ==
    /\ ui_pc = "running"
    /\ WindowCreated
    /\ ~cancel_flag
    /\ cancel_flag' = TRUE
    /\ cancel_at' = <<[steps |-> Len(tx_trace), msgs |-> Len(wire)]>>
    /\ UNCHANGED <<appmsgs, ui_seen, win>>
    /\ UNCHANGED <<soVars, txVars, otherVars>>

(***************************************************************************)
(* The transmission thread                                                 *)
(***************************************************************************)
\* thread::sleep(duration): a step sleeps after its last message; ResetClock,
\* of n = 2 messages, sleeps after each of them.  The result is the set of
\* the numbers of the messages that are followed by a sleep.
StepSleeps(step, n) == IF step = "ResetClock" THEN {1, 2} ELSE {n}

\* a message as it is recorded: with the step and chunk that sent it, the
\* position of that step in tx_trace, and the cancel flag at that time
Tagged(m, step) ==
    [addr |-> m.addr, reg |-> m.reg, val |-> m.val, name |-> m.name,
     step |-> step,
     chunk |-> tx_chunk, seq |-> Len(tx_trace) + 1, flag |-> cancel_flag]

\* ((count as f64) / (countmax as f64)) * 100.0, as a fraction in lowest
\* terms
Percent(a, b) ==
    LET g == CHOOSE d \in 1 .. (100 * a + b) :
                /\ (100 * a) % d = 0 /\ b % d = 0
                /\ \A e \in (d + 1) .. (100 * a + b) :
                        ~((100 * a) % e = 0 /\ b % e = 0)
    IN  <<(100 * a) \div g, b \div g>>

\* the progress a step reports: a chunk step its index over the number of
\* chunks, every other step 0.0
ProgressOf(step, chunk) ==
    IF step = "PixelChunk" THEN Percent(chunk, Len(PixelChunks))
    ELSE IF step = "PaletteChunk"
         THEN Percent(chunk, Len(Chunks(so_args.palette, PALETTE_COLORS_PER_SEND)))
         ELSE Percent(0, 1)

\* progress_message(msg, progress): the update the spawned thread carries,
\* numbered by the step that issued it
ProgressMessage(step, chunk) ==
    [n |-> Len(tx_trace) + 1, step |-> step, chunk |-> chunk,
     value |-> ProgressOf(step, chunk)]

\* a chunk step calls progress_message after send_cmd and send_clk, so only
\* if both were Ok; every other step calls it before its first send
ProgressIssued(step, allsent) ==
    step \in {"PaletteChunk", "PixelChunk"} => allsent

\* one protocol step: its messages are sent in order; a send that fails ends
\* the closure with Err, the messages before it have been sent.  send_clk
\* toggles clk whether its send fails or not.  The step is recorded with the
\* number of messages sent before it, the number it sent and the positions in
\* wire of the messages after which the thread slept.
TxSend(step) ==
    /\ tx_pc = step
    /\ LET msgs == StepMsgs(step, tx_chunk, tx_clk)
           n    == Len(msgs)
       IN  \E k \in {n} \cup FailAts(n) :
            LET next == AfterSend(step, tx_chunk, k < n) IN
            /\ wire' = wire \o [i \in 1 .. k |-> Tagged(msgs[i], step)]
            /\ tx_trace' = Append(tx_trace,
                    [step |-> step, chunk |-> tx_chunk, flag |-> cancel_flag,
                     first |-> Len(wire), sent |-> k,
                     sleeps |-> {Len(wire) + s :
                                    s \in {t \in StepSleeps(step, n) : t <= k}}])
            /\ tx_clk' = IF step \in ClockedSteps /\ k >= n - 1
                         THEN ~tx_clk ELSE tx_clk
            /\ tx_pc' = next
            /\ tx_end' = IF k < n THEN "error"
                         ELSE IF next = "delete" THEN "ok" ELSE tx_end
            /\ tx_chunk' = IF k < n THEN tx_chunk
                           ELSE IF next \in {"PaletteCheck", "PixelCheck"}
                                   /\ step \in {"PaletteChunk", "PixelChunk"}
                                THEN tx_chunk + 1 ELSE 0
            /\ progress_threads' =
                    IF ProgressIssued(step, k = n)
                    THEN progress_threads \cup {ProgressMessage(step, tx_chunk)}
                    ELSE progress_threads
            /\ UNCHANGED <<progressbar, progress_hi>>

\* the poll at the top of a chunk loop's body
TxCheck(step, chunkstep) ==
    /\ tx_pc = step
    /\ tx_trace' = Append(tx_trace,
            [step |-> step, chunk |-> tx_chunk, flag |-> cancel_flag,
             first |-> Len(wire), sent |-> 0, sleeps |-> {}])
    /\ IF CancelObserved(cancel_flag)
       THEN tx_pc' = OnCancel(step) /\ tx_end' = "cancelled"
       ELSE tx_pc' = chunkstep /\ UNCHANGED tx_end
    /\ UNCHANGED <<tx_chunk, tx_clk, wire>>
    /\ UNCHANGED <<progress_threads, progressbar, progress_hi>>

TxResetClock ==
    /\ TxSend("ResetClock")
    /\ UNCHANGED <<soVars, uiVars, otherVars>>

TxResetPixelPointer ==
    /\ TxSend("ResetPixelPointer")
    /\ UNCHANGED <<soVars, uiVars, otherVars>>

TxSetCompressionMode ==
    /\ TxSend("SetCompressionMode")
    /\ UNCHANGED <<soVars, uiVars, otherVars>>

TxSetBitDepth ==
    /\ TxSend("SetBitDepth")
    /\ UNCHANGED <<soVars, uiVars, otherVars>>

TxResetPaletteWriteIndex ==
    /\ TxSend("ResetPaletteWriteIndex")
    /\ UNCHANGED <<soVars, uiVars, otherVars>>

TxPaletteCheck ==
    /\ TxCheck("PaletteCheck", "PaletteChunk")
    /\ UNCHANGED <<soVars, uiVars, otherVars>>

TxPaletteChunk ==
    /\ TxSend("PaletteChunk")
    /\ UNCHANGED <<soVars, uiVars, otherVars>>

TxEnablePaletteRead ==
    /\ TxSend("EnablePaletteRead")
    /\ UNCHANGED <<soVars, uiVars, otherVars>>

TxSetGrayscaleMode ==
    /\ TxSend("SetGrayscaleMode")
    /\ UNCHANGED <<soVars, uiVars, otherVars>>

TxClearResetFlag ==
    /\ TxSend("ClearResetFlag")
    /\ UNCHANGED <<soVars, uiVars, otherVars>>

TxPixelCheck ==
    /\ TxCheck("PixelCheck", "PixelChunk")
    /\ UNCHANGED <<soVars, uiVars, otherVars>>

TxPixelChunk ==
    /\ TxSend("PixelChunk")
    /\ UNCHANGED <<soVars, uiVars, otherVars>>

\* Err(err) => error_alert(&appmsg, ..): one Alert on the UI channel
TxReport ==
    /\ tx_pc = "report"
    /\ appmsgs' = Append(appmsgs, "Alert")
    /\ tx_pc' = AfterReport
    /\ UNCHANGED <<ui_seen, win, cancel_flag, cancel_at>>
    /\ UNCHANGED <<tx_chunk, tx_clk, tx_end, tx_trace, wire>>
    /\ UNCHANGED <<progress_threads, progressbar, progress_hi>>
    /\ UNCHANGED <<soVars, otherVars>>

\* appmsg.send(AppMessage::DeleteWindow(win)); the thread ends and drops the
\* socket
TxDeleteWindow ==
    /\ tx_pc = "delete"
    /\ appmsgs' = Append(appmsgs, "DeleteWindow")
    /\ tx_pc' = "exited"
    /\ sock' = "closed"
    /\ UNCHANGED <<so_args, so_pc, so_ret, bitdepth, color, tx_indexes>>
    /\ UNCHANGED <<ui_seen, win, cancel_flag, cancel_at>>
    /\ UNCHANGED <<tx_chunk, tx_clk, tx_end, tx_trace, wire>>
    /\ UNCHANGED <<progress_threads, progressbar, progress_hi>>
    /\ UNCHANGED otherVars

\* a thread spawned by progress_message runs: progressbar.set_label(&msg);
\* progressbar.set_value(progress); fltk::app::awake()
ProgressThread ==
    /\ \E u \in progress_threads :
        /\ progressbar' = u
        /\ progress_threads' = progress_threads \ {u}
        /\ progress_hi' = IF u.n > progress_hi THEN u.n ELSE progress_hi
    /\ UNCHANGED <<tx_pc, tx_chunk, tx_clk, tx_end, tx_trace, wire>>
    /\ UNCHANGED <<soVars, uiVars, otherVars>>

\* the steps of the transmission thread
TxThread ==
    \/ TxResetClock
    \/ TxResetPixelPointer
    \/ TxSetCompressionMode
    \/ TxSetBitDepth
    \/ TxResetPaletteWriteIndex
    \/ TxPaletteCheck
    \/ TxPaletteChunk
    \/ TxEnablePaletteRead
    \/ TxSetGrayscaleMode
    \/ TxClearResetFlag
    \/ TxPixelCheck
    \/ TxPixelChunk
    \/ TxReport
    \/ TxDeleteWindow

SoNext ==
    \/ SoCheckArgs
    \/ SoBind
    \/ SoPixFmt
    \/ SoEncode
    \/ SoRequestWindow
    \/ UiCreateWindow
    \/ SoSpawn

TxNext ==
    \/ SoCheckArgs
    \/ SoBind
    \/ SoPixFmt
    \/ SoEncode
    \/ SoRequestWindow
    \/ SoSpawn
    \/ UiCreateWindow
    \/ UiAlert
    \/ UiDeleteWindow
    \/ UiCancel
    \/ TxResetClock
    \/ TxResetPixelPointer
    \/ TxSetCompressionMode
    \/ TxSetBitDepth
    \/ TxResetPaletteWriteIndex
    \/ TxPaletteCheck
    \/ TxPaletteChunk
    \/ TxEnablePaletteRead
    \/ TxSetGrayscaleMode
    \/ TxClearResetFlag
    \/ TxPixelCheck
    \/ TxPixelChunk
    \/ TxReport
    \/ TxDeleteWindow

(***************************************************************************)
(* A session: the UI thread, the worker handling SendOSC and the            *)
(* transmission threads it spawns                                          *)
(***************************************************************************)
\* the image and options the worker is given when Send OSC is pressed: one
\* pixel, two colours, PixFmt::Auto of either colour mode, no compression
SessArgs ==
    {a \in TxArgs : /\ a.width = 1
                    /\ Len(a.palette) = 2
                    /\ a.pixfmt.kind = "Auto"
                    /\ ~a.rle_compression}

\* send_osc_btn callback, pressed at most MaxCalls times
SessSendOscBtn ==
    /\ Cardinality({i \in DOMAIN sent : sent[i].kind = "SendOSC"}) < MaxCalls
    /\ SendOscBtn

\* BgMessage::SendOSC(options): the worker calls send_osc with the image it
\* holds
WorkerSendOsc ==
    /\ worker_pc = "handling"
    /\ worker_msg[1].kind = "SendOSC"
    /\ worker_pc' = "send_osc"
    /\ so_pc' = "entry"
    /\ so_ret' = "none"
    /\ UNCHANGED <<ui_pc, worker_msg>>
    /\ UNCHANGED <<so_args, sock, bitdepth, color, tx_indexes>>
    /\ UNCHANGED <<uiVars, txVars, rleVars, mqVars, packVars, imgVars>>

\* send_osc returned: Ok(()) => (), Err(errmsg) => error_alert(..); the
\* worker goes on to its next recv()
WorkerSendOscReturned ==
    /\ worker_pc = "send_osc"
    /\ so_pc = "returned"
    /\ appmsgs' = IF so_ret = "ok" THEN appmsgs ELSE Append(appmsgs, "Alert")
    /\ worker_pc' = "recv"
    /\ worker_msg' = <<>>
    /\ UNCHANGED <<ui_seen, win, cancel_flag, cancel_at>>
    /\ UNCHANGED <<ui_pc, soVars, txVars, rleVars, mqVars, packVars, imgVars>>

\* the steps of the worker thread in a session
SessWorker ==
    \/ WorkerRecv
    \/ WorkerQuit
    \/ WorkerSendOsc
    \/ WorkerSendOscReturned
    \/ SoCheckArgs
    \/ SoBind
    \/ SoPixFmt
    \/ SoEncode
    \/ SoRequestWindow
    \/ SoSpawn

\* the messages the UI event loop handles
SessUiLoop ==
    \/ UiCreateWindow
    \/ UiAlert
    \/ UiDeleteWindow

SessNext ==
    \/ SessSendOscBtn
    \/ Shutdown
    \/ WorkerRecv
    \/ WorkerQuit
    \/ WorkerSendOsc
    \/ WorkerSendOscReturned
    \/ SoCheckArgs
    \/ SoBind
    \/ SoPixFmt
    \/ SoEncode
    \/ SoRequestWindow
    \/ SoSpawn
    \/ UiCreateWindow
    \/ UiAlert
    \/ UiDeleteWindow
    \/ UiCancel
    \/ TxResetClock
    \/ TxResetPixelPointer
    \/ TxSetCompressionMode
    \/ TxSetBitDepth
    \/ TxResetPaletteWriteIndex
    \/ TxPaletteCheck
    \/ TxPaletteChunk
    \/ TxEnablePaletteRead
    \/ TxSetGrayscaleMode
    \/ TxClearResetFlag
    \/ TxPixelCheck
    \/ TxPixelChunk
    \/ TxReport
    \/ TxDeleteWindow

(***************************************************************************)
(* One transmission while the image is edited: the worker's handlers that   *)
(* replace its processed image, and the transmission of the image it held   *)
(* when Send OSC was handled                                               *)
(***************************************************************************)
\* the processed images the worker may hold: MaxSide x MaxSide pixels with
\* MaxPalette colours, or one pixel and one colour less each way
LiveImages ==
    {[indexes |-> Image(w * w), palette |-> PaletteOf(MaxPalette - (MaxSide - w)),
      width |-> w, height |-> w] : w \in {MaxSide - 1, MaxSide}}

\* the options of BgMessage::SendOSC that are followed: automatic bit depth,
\* indexed colours, compression
LiveOpts ==
    [pixfmt : {[kind |-> "Auto", color |-> "Indexed"]}, rle_compression : {TRUE}]

\* send_osc_btn callback, pressed once
LiveSendOscBtn ==
    /\ \A i \in DOMAIN sent : sent[i].kind # "SendOSC"
    /\ SendOscBtn

\* Send OSC has been pressed and fewer than MaxEdits requests that change the
\* image have been made since
LiveMayEdit ==
    /\ \E i \in DOMAIN sent : sent[i].kind = "SendOSC"
    /\ Cardinality({i \in DOMAIN sent :
            sent[i].kind \in {"LoadImage", "ClearImage", "UpdateImage"}}) < MaxEdits

\* the callback of the Open button's file chooser, after Send OSC
LiveOpenBtn ==
    /\ LiveMayEdit
    /\ OpenBtn

\* the callback of the Clear button, after Send OSC
LiveClearBtn ==
    /\ LiveMayEdit
    /\ ClearBtn

\* the callbacks of the toggles, sliders, inputs and choices, after Send OSC
LiveWidgetChanged ==
    /\ LiveMayEdit
    /\ WidgetChanged

\* mutant of LiveUpdateImage: the transmission shares the worker's image
LiveUpdateImageShared ==
    /\ worker_pc = "handling"
    /\ worker_msg[1].kind = "UpdateImage"
    /\ \E img \in LiveImages :
        /\ processed_image' = Some(img)
        /\ so_args' = IF sent_image = None THEN so_args
                      ELSE [so_args EXCEPT !.indexes = img.indexes,
                                           !.palette = img.palette,
                                           !.width = img.width,
                                           !.height = img.height]
        /\ tx_indexes' = IF sent_image = None \/ bitdepth = 0 THEN tx_indexes
                         ELSE Encode(so_args', bitdepth)
    /\ worker_pc' = "recv"
    /\ worker_msg' = <<>>
    /\ UNCHANGED <<so_pc, so_ret, sock, bitdepth, color>>
    /\ UNCHANGED <<ui_pc, sent_image, rleVars, mqVars, uiVars, txVars, packVars>>

\* BgMessage::UpdateImage succeeded:
\* processed_image = Some(ProcessedImage{..}), or None without quantization
LiveUpdateImage ==
    /\ worker_pc = "handling"
    /\ worker_msg[1].kind = "UpdateImage"
    /\ processed_image' \in {None} \cup {Some(img) : img \in LiveImages}
    /\ worker_pc' = "recv"
    /\ worker_msg' = <<>>
    /\ UNCHANGED <<ui_pc, sent_image, rleVars, mqVars, oscVars, packVars>>

\* BgMessage::ClearImage: processed_image = None; rgbaimage = None
LiveClearImage ==
    /\ worker_pc = "handling"
    /\ worker_msg[1].kind = "ClearImage"
    /\ processed_image' = None
    /\ worker_pc' = "recv"
    /\ worker_msg' = <<>>
    /\ UNCHANGED <<ui_pc, sent_image, rleVars, mqVars, oscVars, packVars>>

\* BgMessage::SendOSC(options): send_osc(&appmsg, &img.indexes, &img.palette,
\* img.width, img.height, options)
LiveSendOsc ==
    /\ worker_pc = "handling"
    /\ worker_msg[1].kind = "SendOSC"
    /\ processed_image # None
    /\ \E o \in LiveOpts :
        so_args' = [pixfmt |-> o.pixfmt, rle_compression |-> o.rle_compression,
                    palette |-> Unwrap(processed_image).palette,
                    width |-> Unwrap(processed_image).width,
                    height |-> Unwrap(processed_image).height,
                    indexes |-> Unwrap(processed_image).indexes]
    /\ sent_image' = processed_image
    /\ worker_pc' = "send_osc"
    /\ so_pc' = "entry"
    /\ so_ret' = "none"
    /\ UNCHANGED <<ui_pc, worker_msg, processed_image>>
    /\ UNCHANGED <<sock, bitdepth, color, tx_indexes>>
    /\ UNCHANGED <<uiVars, txVars, rleVars, mqVars, packVars>>

LiveNext ==
    \/ LiveOpenBtn
    \/ LiveClearBtn
    \/ LiveWidgetChanged
    \/ LiveSendOscBtn
    \/ WorkerRecv
    \/ WorkerLoadOk
    \/ WorkerFailed
    \/ LiveUpdateImage
    \/ LiveClearImage
    \/ LiveSendOsc
    \/ WorkerSendOscReturned
    \/ SoCheckArgs
    \/ SoBind
    \/ SoPixFmt
    \/ SoEncode
    \/ SoRequestWindow
    \/ SoSpawn
    \/ UiCreateWindow
    \/ UiAlert
    \/ UiDeleteWindow
    \/ TxResetClock
    \/ TxResetPixelPointer
    \/ TxSetCompressionMode
    \/ TxSetBitDepth
    \/ TxResetPaletteWriteIndex
    \/ TxPaletteCheck
    \/ TxPaletteChunk
    \/ TxEnablePaletteRead
    \/ TxClearResetFlag
    \/ TxPixelCheck
    \/ TxPixelChunk
    \/ TxReport
    \/ TxDeleteWindow

(***************************************************************************)
(* Specifications                                                          *)
(***************************************************************************)
SpecRle ==
    /\ RleInit
    /\ [][RleNext]_vars

SpecMq ==
    /\ MqInit
    /\ [][MqNext]_vars

SpecApp ==
    /\ MqInit
    /\ [][AppNext]_vars

\* a receiver that was woken runs again and gets the mutex, which no thread
\* holds for longer than one critical section; a spurious wake-up may never
\* come
SpecMqFair ==
    /\ MqInit
    /\ [][MqNext]_vars
    /\ WF_vars(MqWoken)

\* the worker handles BgMessage::SendOSC: send_osc is entered with some
\* arguments; nothing has been bound, requested or sent
SoInit ==
    /\ so_args \in SetupArgs
    /\ so_pc = "entry"
    /\ so_ret = "none"
    /\ sock = "none"
    /\ bitdepth = 0
    /\ color = "none"
    /\ tx_indexes = <<>>
    /\ appmsgs = <<>>
    /\ ui_seen = 0
    /\ win = "none"
    /\ cancel_flag = FALSE
    /\ cancel_at = <<>>
    /\ tx_pc = "none"
    /\ tx_chunk = 0
    /\ tx_clk = TRUE
    /\ tx_end = "none"
    /\ tx_trace = <<>>
    /\ wire = <<>>
    /\ progress_threads = {}
    /\ progressbar = NoProgress
    /\ progress_hi = 0
    /\ pk_args = NoPack
    /\ pk_out = <<>>
    /\ pk_pc = "idle"
    /\ processed_image = None
    /\ sent_image = None
    /\ q = <<>>
    /\ rcv_pc = "idle"
    /\ rcv_op = "none"
    /\ nsent = 0
    /\ sent = <<>>
    /\ replaced = {}
    /\ received = <<>>
    /\ last = NoStep
    /\ poisoned = FALSE
    /\ ui_pc = "running"
    /\ worker_pc = "handling"
    /\ worker_msg = <<[kind |-> "SendOSC", id |-> 0]>>
    /\ rle_plan = [lits |-> 0, run |-> 0]
    /\ indexes = <<>>
    /\ result = <<>>
    /\ count = 0
    /\ current_value = None
    /\ rle_pc = "done"
    /\ triples = {}

\* the same, with arguments whose transmission is followed to its end
TxInit ==
    /\ so_args \in TxArgs
    /\ so_pc = "entry"
    /\ so_ret = "none"
    /\ sock = "none"
    /\ bitdepth = 0
    /\ color = "none"
    /\ tx_indexes = <<>>
    /\ appmsgs = <<>>
    /\ ui_seen = 0
    /\ win = "none"
    /\ cancel_flag = FALSE
    /\ cancel_at = <<>>
    /\ tx_pc = "none"
    /\ tx_chunk = 0
    /\ tx_clk = TRUE
    /\ tx_end = "none"
    /\ tx_trace = <<>>
    /\ wire = <<>>
    /\ progress_threads = {}
    /\ progressbar = NoProgress
    /\ progress_hi = 0
    /\ pk_args = NoPack
    /\ pk_out = <<>>
    /\ pk_pc = "idle"
    /\ processed_image = None
    /\ sent_image = None
    /\ q = <<>>
    /\ rcv_pc = "idle"
    /\ rcv_op = "none"
    /\ nsent = 0
    /\ sent = <<>>
    /\ replaced = {}
    /\ received = <<>>
    /\ last = NoStep
    /\ poisoned = FALSE
    /\ ui_pc = "running"
    /\ worker_pc = "handling"
    /\ worker_msg = <<[kind |-> "SendOSC", id |-> 0]>>
    /\ rle_plan = [lits |-> 0, run |-> 0]
    /\ indexes = <<>>
    /\ result = <<>>
    /\ count = 0
    /\ current_value = None
    /\ rle_pc = "done"
    /\ triples = {}

\* the same, with the arguments whose whole transmission is compared with
\* the protocol
RunInit ==
    /\ so_args \in RunArgs
    /\ so_pc = "entry"
    /\ so_ret = "none"
    /\ sock = "none"
    /\ bitdepth = 0
    /\ color = "none"
    /\ tx_indexes = <<>>
    /\ appmsgs = <<>>
    /\ ui_seen = 0
    /\ win = "none"
    /\ cancel_flag = FALSE
    /\ cancel_at = <<>>
    /\ tx_pc = "none"
    /\ tx_chunk = 0
    /\ tx_clk = TRUE
    /\ tx_end = "none"
    /\ tx_trace = <<>>
    /\ wire = <<>>
    /\ progress_threads = {}
    /\ progressbar = NoProgress
    /\ progress_hi = 0
    /\ pk_args = NoPack
    /\ pk_out = <<>>
    /\ pk_pc = "idle"
    /\ processed_image = None
    /\ sent_image = None
    /\ q = <<>>
    /\ rcv_pc = "idle"
    /\ rcv_op = "none"
    /\ nsent = 0
    /\ sent = <<>>
    /\ replaced = {}
    /\ received = <<>>
    /\ last = NoStep
    /\ poisoned = FALSE
    /\ ui_pc = "running"
    /\ worker_pc = "handling"
    /\ worker_msg = <<[kind |-> "SendOSC", id |-> 0]>>
    /\ rle_plan = [lits |-> 0, run |-> 0]
    /\ indexes = <<>>
    /\ result = <<>>
    /\ count = 0
    /\ current_value = None
    /\ rle_pc = "done"
    /\ triples = {}

\* pack_bytes_clone is called; nothing else runs
PackInit ==
    /\ so_args = [pixfmt |-> [kind |-> "Auto", color |-> "Indexed"],
                  rle_compression |-> FALSE, palette |-> <<>>,
                  width |-> 0, height |-> 0, indexes |-> <<>>]
    /\ so_pc = "idle"
    /\ so_ret = "none"
    /\ sock = "none"
    /\ bitdepth = 0
    /\ color = "none"
    /\ tx_indexes = <<>>
    /\ appmsgs = <<>>
    /\ ui_seen = 0
    /\ win = "none"
    /\ cancel_flag = FALSE
    /\ cancel_at = <<>>
    /\ tx_pc = "none"
    /\ tx_chunk = 0
    /\ tx_clk = TRUE
    /\ tx_end = "none"
    /\ tx_trace = <<>>
    /\ wire = <<>>
    /\ progress_threads = {}
    /\ progressbar = NoProgress
    /\ progress_hi = 0
    /\ pk_args \in PackArgs
    /\ pk_out = <<>>
    /\ pk_pc = "call"
    /\ processed_image = None
    /\ sent_image = None
    /\ q = <<>>
    /\ rcv_pc = "idle"
    /\ rcv_op = "none"
    /\ nsent = 0
    /\ sent = <<>>
    /\ replaced = {}
    /\ received = <<>>
    /\ last = NoStep
    /\ poisoned = FALSE
    /\ ui_pc = "running"
    /\ worker_pc = "recv"
    /\ worker_msg = <<>>
    /\ rle_plan = [lits |-> 0, run |-> 0]
    /\ indexes = <<>>
    /\ result = <<>>
    /\ count = 0
    /\ current_value = None
    /\ rle_pc = "done"
    /\ triples = {}

\* the application has started and holds a processed image: the UI runs its
\* event loop, the worker is about to call recv(), nothing has been sent
SessInit ==
    /\ q = <<>>
    /\ rcv_pc = "idle"
    /\ rcv_op = "none"
    /\ nsent = 0
    /\ sent = <<>>
    /\ replaced = {}
    /\ received = <<>>
    /\ last = NoStep
    /\ poisoned = FALSE
    /\ ui_pc = "running"
    /\ worker_pc = "recv"
    /\ worker_msg = <<>>
    /\ rle_plan = [lits |-> 0, run |-> 0]
    /\ indexes = <<>>
    /\ result = <<>>
    /\ count = 0
    /\ current_value = None
    /\ rle_pc = "done"
    /\ triples = {}
    /\ so_args \in SessArgs
    /\ so_pc = "idle"
    /\ so_ret = "none"
    /\ sock = "none"
    /\ bitdepth = 0
    /\ color = "none"
    /\ tx_indexes = <<>>
    /\ appmsgs = <<>>
    /\ ui_seen = 0
    /\ win = "none"
    /\ cancel_flag = FALSE
    /\ cancel_at = <<>>
    /\ tx_pc = "none"
    /\ tx_chunk = 0
    /\ tx_clk = TRUE
    /\ tx_end = "none"
    /\ tx_trace = <<>>
    /\ wire = <<>>
    /\ progress_threads = {}
    /\ progressbar = NoProgress
    /\ progress_hi = 0
    /\ pk_args = NoPack
    /\ pk_out = <<>>
    /\ pk_pc = "idle"
    /\ processed_image = None
    /\ sent_image = None

\* the application has started and the worker holds a processed image; no
\* call of send_osc has been made
LiveInit ==
    /\ q = <<>>
    /\ rcv_pc = "idle"
    /\ rcv_op = "none"
    /\ nsent = 0
    /\ sent = <<>>
    /\ replaced = {}
    /\ received = <<>>
    /\ last = NoStep
    /\ poisoned = FALSE
    /\ ui_pc = "running"
    /\ worker_pc = "recv"
    /\ worker_msg = <<>>
    /\ rle_plan = [lits |-> 0, run |-> 0]
    /\ indexes = <<>>
    /\ result = <<>>
    /\ count = 0
    /\ current_value = None
    /\ rle_pc = "done"
    /\ triples = {}
    /\ so_args = [pixfmt |-> [kind |-> "Auto", color |-> "Indexed"],
                  rle_compression |-> FALSE, palette |-> <<>>,
                  width |-> 0, height |-> 0, indexes |-> <<>>]
    /\ so_pc = "idle"
    /\ so_ret = "none"
    /\ sock = "none"
    /\ bitdepth = 0
    /\ color = "none"
    /\ tx_indexes = <<>>
    /\ appmsgs = <<>>
    /\ ui_seen = 0
    /\ win = "none"
    /\ cancel_flag = FALSE
    /\ cancel_at = <<>>
    /\ tx_pc = "none"
    /\ tx_chunk = 0
    /\ tx_clk = TRUE
    /\ tx_end = "none"
    /\ tx_trace = <<>>
    /\ wire = <<>>
    /\ progress_threads = {}
    /\ progressbar = NoProgress
    /\ progress_hi = 0
    /\ pk_args = NoPack
    /\ pk_out = <<>>
    /\ pk_pc = "idle"
    /\ processed_image \in
        {Some(img) : img \in {i \in LiveImages : i.width = MaxSide}}
    /\ sent_image = None

\* the set-up of send_osc, up to its return
SpecSendOsc ==
    /\ SoInit
    /\ [][SoNext]_vars

\* send_osc and the transmission it spawns
SpecTx ==
    /\ TxInit
    /\ [][TxNext]_vars

\* the transmission thread keeps running: its sends return, its sleeps end
SpecTxFair ==
    /\ TxInit
    /\ [][TxNext]_vars
    /\ WF_vars(TxThread)

\* send_osc and the transmission it spawns, for the wider set of arguments
SpecTxRun ==
    /\ RunInit
    /\ [][TxNext]_vars

\* every explored call of pack_bytes_clone
SpecPack ==
    /\ PackInit
    /\ [][PackNext]_vars

\* the application, with a queue that can get poisoned
SpecAppPoison ==
    /\ MqInit
    /\ [][AppPoisonNext]_vars

\* a session of the application
SpecSession ==
    /\ SessInit
    /\ [][SessNext]_vars

\* the worker thread and the transmission thread keep running, and the UI
\* thread handles the messages sent to it for as long as its event loop runs
SpecSessionFair ==
    /\ SessInit
    /\ [][SessNext]_vars
    /\ WF_vars(SessWorker)
    /\ WF_vars(TxThread)
    /\ WF_vars(SessUiLoop)

\* one transmission, while the UI goes on sending requests to the worker
SpecLive ==
    /\ LiveInit
    /\ [][LiveNext]_vars

\* the calls whose transmission reports progress for two pixel chunks: an
\* image of MaxSide * MaxSide pixels at eight bits per pixel, a palette of
\* two colours, no compression
ProgArgs ==
    {a \in TxArgs : /\ a.width = MaxSide
                    /\ Len(a.palette) = 2
                    /\ a.pixfmt.kind = "Bpp8"
                    /\ ~a.rle_compression}

ProgInit ==
    /\ so_args \in ProgArgs
    /\ so_pc = "entry"
    /\ so_ret = "none"
    /\ sock = "none"
    /\ bitdepth = 0
    /\ color = "none"
    /\ tx_indexes = <<>>
    /\ appmsgs = <<>>
    /\ ui_seen = 0
    /\ win = "none"
    /\ cancel_flag = FALSE
    /\ cancel_at = <<>>
    /\ tx_pc = "none"
    /\ tx_chunk = 0
    /\ tx_clk = TRUE
    /\ tx_end = "none"
    /\ tx_trace = <<>>
    /\ wire = <<>>
    /\ progress_threads = {}
    /\ progressbar = NoProgress
    /\ progress_hi = 0
    /\ pk_args = NoPack
    /\ pk_out = <<>>
    /\ pk_pc = "idle"
    /\ processed_image = None
    /\ sent_image = None
    /\ q = <<>>
    /\ rcv_pc = "idle"
    /\ rcv_op = "none"
    /\ nsent = 0
    /\ sent = <<>>
    /\ replaced = {}
    /\ received = <<>>
    /\ last = NoStep
    /\ poisoned = FALSE
    /\ ui_pc = "running"
    /\ worker_pc = "handling"
    /\ worker_msg = <<[kind |-> "SendOSC", id |-> 0]>>
    /\ rle_plan = [lits |-> 0, run |-> 0]
    /\ indexes = <<>>
    /\ result = <<>>
    /\ count = 0
    /\ current_value = None
    /\ rle_pc = "done"
    /\ triples = {}

ProgNext ==
    \/ SoCheckArgs
    \/ SoBind
    \/ SoPixFmt
    \/ SoEncode
    \/ SoRequestWindow
    \/ SoSpawn
    \/ UiCreateWindow
    \/ UiAlert
    \/ UiDeleteWindow
    \/ TxResetClock
    \/ TxResetPixelPointer
    \/ TxSetCompressionMode
    \/ TxSetBitDepth
    \/ TxResetPaletteWriteIndex
    \/ TxPaletteCheck
    \/ TxPaletteChunk
    \/ TxEnablePaletteRead
    \/ TxSetGrayscaleMode
    \/ TxClearResetFlag
    \/ TxPixelCheck
    \/ TxPixelChunk
    \/ TxReport
    \/ TxDeleteWindow
    \/ ProgressThread

\* send_osc, the UI loop without a cancellation, the transmission thread and
\* the threads spawned by progress_message
SpecProgress ==
    /\ ProgInit
    /\ [][ProgNext]_vars

(***************************************************************************)
(* Claims about rle_encode, checked under SpecRle                          *)
(***************************************************************************)
\* C1: decoding rle_encode(b) with the decoder of the specification (the
\* bytes at offsets BYTES_PER_SEND-2 and BYTES_PER_SEND-1 of every block are
\* literal) gives back b.
RleRoundTrip == rle_pc = "done" => Decode(result) = indexes

\* C2: no byte of an emitted (value, value, count) triple lies at offset
\* BYTES_PER_SEND-2 or BYTES_PER_SEND-1 of an output block.
RleTriplesAvoidBlockEnd ==
    \A t \in triples : (t % BYTES_PER_SEND) + 2 < BYTES_PER_SEND - 2

\* C3: the three bytes of an emitted triple lie in one output block: a triple
\* starts at a block offset of at most BYTES_PER_SEND-3.
RleNoStraddle ==
    \A t \in triples :
        /\ t \div BYTES_PER_SEND = (t + 2) \div BYTES_PER_SEND
        /\ t % BYTES_PER_SEND <= BYTES_PER_SEND - 3

\* C3 witness: a run reached the end of the first block, was broken into two
\* literals there and continued as a triple at the start of the next block.
RleRunBrokenAtBlockEnd ==
    /\ rle_pc = "done"
    /\ BYTES_PER_SEND \in triples
    /\ result[BYTES_PER_SEND - 1] = result[BYTES_PER_SEND + 1]
    /\ result[BYTES_PER_SEND] = result[BYTES_PER_SEND + 1]

(***************************************************************************)
(* Claims about the queue, checked under SpecMq                            *)
(***************************************************************************)
NotReplaced(v) == v \notin replaced

\* C4: what the receiver got, followed by what is still queued, is exactly the
\* sequence of the values that were sent and never overwritten, in the order
\* they were sent: none is lost, none comes twice, the order is FIFO.  (Only
\* the newest slot is ever overwritten, so the order in which the surviving
\* values were sent is the order in which their slots were appended.)
MqFifoExactlyOnce ==
    /\ received \o q = SelectSeq(sent, NotReplaced)
    /\ \A i, j \in 1 .. Len(received) : received[i] = received[j] => i = j

\* C4 witness: every send was made, some value was overwritten, and the
\* receiver has taken all the others with recv().
MqAllReceived ==
    /\ nsent >= 3
    /\ q = <<>>
    /\ replaced # {}
    /\ Len(received) >= 2
    /\ last.op = "recv"

\* C5: send_or_replace_if(pred, v) overwrites the last element when the queue
\* is non-empty and pred holds of it, leaving length and other elements alone,
\* and otherwise appends v as send does; never-true is send, always-true on a
\* non-empty queue keeps the length.
MqReplaceIfSemantics ==
    last.op = "send_or_replace_if" =>
        LET qb == last.qbefore
            v  == last.val[1]
        IN  /\ IF qb # <<>> /\ Pred(last.pred, Last(qb))
               THEN /\ Len(q) = Len(qb)
                    /\ Last(q) = v
                    /\ \A i \in 1 .. Len(qb) - 1 : q[i] = qb[i]
               ELSE /\ q = SendQ(qb, v)
                    /\ Len(q) = Len(qb) + 1
            /\ last.pred = "never" => q = SendQ(qb, v)
            /\ (last.pred = "always" /\ qb # <<>>) => Len(q) = Len(qb)

\* C5 witness: an update replaced the pending update behind another message.
MqReplacedPendingUpdate ==
    /\ last.op = "send_or_replace_if"
    /\ last.pred = "is_update"
    /\ Len(last.qbefore) >= 2
    /\ IsUpdate(Last(last.qbefore))
    /\ ~IsUpdate(last.qbefore[1])

\* C8: recv() returns only from a non-empty queue, returns its oldest element
\* and leaves the others in their order.
MqRecvTakesOldest ==
    /\ rcv_pc # "panic"
    /\ last.op = "recv" =>
        /\ last.qbefore # <<>>
        /\ last.ret = <<Head(last.qbefore)>>
        /\ q = Tail(last.qbefore)

\* C8 witness: recv() had parked on the empty queue, was woken and returned
\* the oldest of several elements.
MqRecvAfterWait ==
    /\ last.op = "recv"
    /\ last.rbefore = "woken"
    /\ Len(last.qbefore) >= 2

\* C9: drain() returns a non-empty batch holding every queued element, oldest
\* first, and leaves the queue empty; every value sent is in the batches, in
\* the queue or was overwritten.
MqDrainTakesAll ==
    /\ last.op = "drain" =>
        /\ last.ret # <<>>
        /\ last.ret = last.qbefore
        /\ q = <<>>
    /\ Len(received) + Len(q) + Cardinality(replaced) = nsent

\* C9 witness: drain() returned a batch of several elements after an earlier
\* batch was received.
MqDrainedBatch ==
    /\ last.op = "drain"
    /\ Len(last.ret) >= 2
    /\ Len(received) > Len(last.ret)

\* C10: send_or_replace(v) overwrites the last element of a non-empty queue in
\* place; on an empty queue it appends v and wakes the parked receiver.
MqSendOrReplaceSemantics ==
    last.op = "send_or_replace" =>
        LET qb == last.qbefore
            v  == last.val[1]
        IN  IF qb # <<>>
            THEN /\ Len(q) = Len(qb)
                 /\ Last(q) = v
                 /\ \A i \in 1 .. Len(qb) - 1 : q[i] = qb[i]
            ELSE /\ q = <<v>>
                 /\ last.rbefore = "waiting" => rcv_pc = "woken"

\* C10 witness: send_or_replace found the queue empty and the receiver parked.
MqSendOrReplaceWoke ==
    /\ last.op = "send_or_replace"
    /\ last.qbefore = <<>>
    /\ last.rbefore = "waiting"
    /\ rcv_pc = "woken"

\* C11: whenever the receiver is inside recv() or drain() and the queue is
\* non-empty, the call eventually returns, whatever the senders do meanwhile
\* (checked under SpecMqFair).
MqNoLostWakeup == (rcv_op # "none" /\ q # <<>>) ~> (rcv_op = "none")

\* C11 witness: while the woken receiver had not yet run, send_or_replace or
\* send_or_replace_if overwrote the tail without notifying.
MqOverwriteWhileParked ==
    /\ rcv_op # "none"
    /\ rcv_pc = "woken"
    /\ last.op \in {"send_or_replace", "send_or_replace_if"}
    /\ last.qbefore # <<>>
    /\ Len(q) = Len(last.qbefore)
    /\ last.rbefore = "woken"

\* C12: an operation returns an error only when the lock is poisoned; once
\* the lock is poisoned it stays poisoned, every operation that completes
\* returns an error, and the queue contents never change again.
MqPoisonSemantics ==
    /\ [](last.op \in ErrOps => poisoned)
    /\ [](poisoned => last.op \in ErrOps \cup {"panic", "wake"})
    /\ [][poisoned => (poisoned' /\ q' = q /\ received' = received)]_vars

\* C12 witness: after the poisoning a woken recv() returned an error and left
\* the queue, which was not empty, as it was.
MqRecvFailedPoisoned ==
    /\ poisoned
    /\ last.op = "recv_err"
    /\ last.rbefore = "woken"
    /\ q # <<>>
    /\ q = last.qbefore

(***************************************************************************)
(* Claims about the application's use of the queue, checked under SpecApp  *)
(***************************************************************************)
\* C6: the worker's queue never holds two adjacent UpdateImage messages, and
\* an update request issued while an update is the last message takes its
\* place: the pending update is the most recent request.
AppNoAdjacentUpdates ==
    /\ \A i \in 1 .. Len(q) - 1 : ~(IsUpdate(q[i]) /\ IsUpdate(q[i + 1]))
    /\ (last.op = "send_or_replace_if" /\ IsUpdate(last.val[1])) =>
        /\ Last(q) = last.val[1]
        /\ (last.qbefore # <<>> /\ IsUpdate(Last(last.qbefore))) =>
               Len(q) = Len(last.qbefore)

\* C6 witness: an update request collapsed into the pending update queued
\* behind another message.
AppUpdateCollapsed ==
    /\ last.op = "send_or_replace_if"
    /\ IsUpdate(last.val[1])
    /\ Len(last.qbefore) >= 2
    /\ IsUpdate(Last(last.qbefore))
    /\ Len(q) = Len(last.qbefore)

\* C7: only UpdateImage messages are ever overwritten in the worker's queue.
AppOnlyUpdatesReplaced == \A v \in replaced : IsUpdate(v)

(***************************************************************************)
(* Claims about the transmission, checked under SpecTx and SpecTxFair      *)
(***************************************************************************)
ChunkSteps == {"PaletteChunk", "PixelChunk"}

CheckSteps == {"PaletteCheck", "PixelCheck"}

ControlSteps == {"SetCompressionMode", "SetBitDepth", "ResetPaletteWriteIndex",
                 "EnablePaletteRead", "SetGrayscaleMode"}

CheckOf(step) == IF step = "PaletteChunk" THEN "PaletteCheck" ELSE "PixelCheck"

\* positions in wire of the messages of pixel chunks
PixelMsgs == {i \in DOMAIN wire : wire[i].step = "PixelChunk"}

\* positions in wire of the messages of palette chunks
PaletteMsgs == {i \in DOMAIN wire : wire[i].step = "PaletteChunk"}

\* number of messages of one kind sent to the UI thread
CountApp(kind) == Cardinality({i \in DOMAIN appmsgs : appmsgs[i] = kind})

\* the chunks of which a message was sent while the cancel flag was set
ChunksSentAfterCancel ==
    {<<wire[i].step, wire[i].chunk>> :
        i \in {j \in DOMAIN wire : wire[j].flag /\ wire[j].step \in ChunkSteps}}

\* C13: every chunk is sent right after a poll of the cancel flag; a poll that
\* sees the flag set is the last thing the protocol does (no chunk, no
\* EnablePaletteRead, no ClearResetFlag follows), and messages of at most one
\* chunk are sent while the flag is set.
TxCancelPolled ==
    /\ [](\A i \in DOMAIN tx_trace :
            /\ tx_trace[i].step \in ChunkSteps =>
                /\ i > 1
                /\ tx_trace[i - 1].step = CheckOf(tx_trace[i].step)
                /\ tx_trace[i - 1].chunk = tx_trace[i].chunk
            /\ (tx_trace[i].step \in CheckSteps /\ tx_trace[i].flag) =>
                /\ i = Len(tx_trace)
                /\ tx_end = "cancelled"
                /\ \A j \in DOMAIN wire : wire[j].seq < i)
    /\ [](Cardinality(ChunksSentAfterCancel) <= 1)
    /\ [][tx_end = "cancelled" => (wire' = wire /\ tx_trace' = tx_trace)]_vars

\* C13 witness: the flag was set while the first palette chunk was on its
\* way; the chunk was sent, the poll before the second one ended the
\* transmission.
TxCancelledInPalette ==
    /\ tx_pc = "exited"
    /\ tx_end = "cancelled"
    /\ tx_trace[Len(tx_trace)].step = "PaletteCheck"
    /\ tx_trace[Len(tx_trace)].chunk = 1
    /\ ChunksSentAfterCancel = {<<"PaletteChunk", 0>>}

\* the protocol of one transmission, polls included, as a sequence of steps
One(step) == <<[step |-> step, chunk |-> 0]>>

Loop(check, chunk, n) ==
    [i \in 1 .. 2 * n |->
        [step |-> IF i % 2 = 1 THEN check ELSE chunk, chunk |-> (i - 1) \div 2]]

FullProtocol ==
    One("ResetClock") \o One("ResetPixelPointer") \o One("SetCompressionMode")
    \o One("SetBitDepth")
    \o (IF color = "Indexed"
        THEN One("ResetPaletteWriteIndex")
             \o Loop("PaletteCheck", "PaletteChunk",
                     DivCeil(Len(so_args.palette), PALETTE_COLORS_PER_SEND))
             \o One("EnablePaletteRead")
        ELSE One("SetGrayscaleMode"))
    \o One("ClearResetFlag")
    \o Loop("PixelCheck", "PixelChunk", DivCeil(Len(tx_indexes), BYTES_PER_SEND))

\* C14: the steps a transmission has taken are a prefix of the protocol
\* ResetClock, ResetPixelPointer, SetCompressionMode, SetBitDepth, (Indexed:
\* ResetPaletteWriteIndex, palette chunks, EnablePaletteRead | Grayscale:
\* SetGrayscaleMode), ClearResetFlag, pixel chunks; the messages are on the
\* wire in the order of their steps; a transmission that was neither cancelled
\* nor failed has taken every step.
TxStepOrder ==
    tx_pc # "none" =>
        /\ Len(tx_trace) <= Len(FullProtocol)
        /\ \A i \in DOMAIN tx_trace :
            /\ tx_trace[i].step = FullProtocol[i].step
            /\ tx_trace[i].chunk = FullProtocol[i].chunk
        /\ \A i \in DOMAIN wire :
            /\ wire[i].seq \in DOMAIN tx_trace
            /\ wire[i].step = tx_trace[wire[i].seq].step
            /\ i > 1 => wire[i - 1].seq <= wire[i].seq
        /\ (tx_pc \in {"delete", "exited"} /\ tx_end = "ok") =>
                Len(tx_trace) = Len(FullProtocol)
        /\ (tx_pc \in {"delete", "exited"} /\ Len(tx_trace) < Len(FullProtocol)) =>
                tx_end \in {"cancelled", "error"}

\* C14 witness: an indexed transmission with two palette chunks and two pixel
\* chunks ran to its end.
TxRanToEnd ==
    /\ tx_pc = "exited"
    /\ tx_end = "ok"
    /\ color = "Indexed"
    /\ Len(tx_trace) = Len(FullProtocol)
    /\ \E i \in DOMAIN tx_trace :
        tx_trace[i].step = "PaletteChunk" /\ tx_trace[i].chunk = 1
    /\ tx_trace[Len(tx_trace)].step = "PixelChunk"
    /\ tx_trace[Len(tx_trace)].chunk = 1

\* C15: a spawned transmission thread eventually ends, having sent exactly one
\* DeleteWindow however the protocol ended, and sends no protocol message
\* after it (checked under SpecTxFair).
TxDeleteWindowOnce ==
    /\ (tx_pc # "none") ~> (tx_pc = "exited")
    /\ [](CountApp("DeleteWindow") <= 1)
    /\ [](tx_pc = "exited" => CountApp("DeleteWindow") = 1)
    /\ [][CountApp("DeleteWindow") = 1 => wire' = wire]_vars

\* C15 witness: a cancelled transmission has ended and the UI has deleted its
\* window.
TxWindowDeletedAfterCancel ==
    /\ tx_pc = "exited"
    /\ tx_end = "cancelled"
    /\ CountApp("DeleteWindow") = 1
    /\ win = "deleted"

\* C16: after the first failed send no message is sent and no step is taken;
\* a transmission that failed has sent exactly one Alert when it requests the
\* deletion of its window, and no transmission sends more than one.
TxFirstErrorEnds ==
    /\ [][tx_end = "error" => (wire' = wire /\ tx_trace' = tx_trace)]_vars
    /\ [](CountApp("Alert") <= 1)
    /\ []((tx_end = "error" /\ tx_pc \in {"delete", "exited"}) =>
            CountApp("Alert") = 1)
    /\ [](tx_end = "error" <=> tx_pc = "report" \/ CountApp("Alert") = 1)

\* C16 witness: a send failed in the middle of a pixel chunk's frame; the
\* transmission ended with one Alert.
TxFailedInPixelFrame ==
    /\ tx_pc = "exited"
    /\ tx_end = "error"
    /\ CountApp("Alert") = 1
    /\ wire # <<>>
    /\ wire[Len(wire)].step = "PixelChunk"
    /\ wire[Len(wire)].addr = "V"

\* C17, as stated: a cancelled transmission sends no Alert, and if no message
\* of a pixel chunk had been sent when the flag was set, none is ever sent.
TxCancelBeforeFirstChunkSent ==
    /\ tx_end = "cancelled" => CountApp("Alert") = 0
    /\ (cancel_at # <<>> /\ \A i \in PixelMsgs : i > cancel_at[1].msgs) =>
            PixelMsgs = {}

\* C17, amended: a cancelled transmission sends no Alert, and if the flag was
\* set before the poll that precedes the first pixel chunk, no message of a
\* pixel chunk is ever sent.
TxCancelBeforeFirstPoll ==
    /\ tx_end = "cancelled" => CountApp("Alert") = 0
    /\ (/\ cancel_at # <<>>
        /\ \A i \in DOMAIN tx_trace :
             tx_trace[i].step = "PixelCheck" => i > cancel_at[1].steps) =>
            PixelMsgs = {}

\* C17 witness: the flag was set during the handshake; the transmission went
\* on to clear Reset and ended at the first pixel poll without an Alert.
TxCancelledAtFirstPixelPoll ==
    /\ tx_pc = "exited"
    /\ tx_end = "cancelled"
    /\ cancel_at # <<>>
    /\ cancel_at[1].steps <= 3
    /\ tx_trace[Len(tx_trace)].step = "PixelCheck"
    /\ tx_trace[Len(tx_trace)].chunk = 0
    /\ CountApp("Alert") = 0
    /\ PixelMsgs = {}

\* positions in wire of the Reset messages
ResetMsgs == {i \in DOMAIN wire : wire[i].addr = "Reset"}

\* the value of the last Reset message, of those at the positions rs, sent
\* before position i
LastReset(rs, i) ==
    LET before == {j \in rs : j < i} IN
    IF before = {} THEN "none"
    ELSE IF wire[CHOOSE j \in before : \A k \in before : k <= j].val
         THEN "true" ELSE "false"

\* C18: every message of a control-register frame or palette chunk is sent
\* while the last Reset value sent is true, every message of a pixel chunk
\* while it is false.
TxResetBracketsSetup ==
    LET rs == ResetMsgs IN
    \A i \in DOMAIN wire :
        /\ wire[i].step \in ControlSteps \cup {"PaletteChunk"} =>
                LastReset(rs, i) = "true"
        /\ wire[i].step = "PixelChunk" => LastReset(rs, i) = "false"

\* C18 witness: a run-length encoded indexed transmission uploaded its
\* palette and sent its pixels.
TxPaletteThenPixels ==
    /\ tx_pc = "exited"
    /\ so_args.rle_compression
    /\ PaletteMsgs # {}
    /\ PixelMsgs # {}
    /\ Cardinality(ResetMsgs) = 2

(***************************************************************************)
(* Claims about the set-up of send_osc, checked under SpecSendOsc          *)
(***************************************************************************)
\* C19: when width or height is 0, the index array is empty or its length is
\* not width * height, send_osc returns an error and has not bound the socket,
\* sent a message, requested a window or spawned a thread.
SoBadArgsFailEarly ==
    (/\ so_pc # "entry"
     /\ \/ so_args.width = 0
        \/ so_args.height = 0
        \/ Len(so_args.indexes) = 0
        \/ Len(so_args.indexes) # so_args.width * so_args.height) =>
        /\ so_pc = "returned"
        /\ so_ret = "err_args"
        /\ sock = "none"
        /\ wire = <<>>
    /\ progress_threads = {}
    /\ progressbar = NoProgress
    /\ progress_hi = 0
        /\ appmsgs = <<>>
        /\ win = "none"
        /\ tx_pc = "none"

\* C19 witness: a 2 x 2 image with three indexes was refused.
SoLengthMismatchRefused ==
    /\ so_pc = "returned"
    /\ so_ret = "err_args"
    /\ so_args.width = 2
    /\ so_args.height = 2
    /\ Len(so_args.indexes) = 3

\* C20: with a palette of more than 256 colours send_osc never binds the
\* socket and returns an error, whatever the pixel format.
SoTooLargePaletteFailsEarly ==
    Len(so_args.palette) > 256 =>
        /\ sock = "none"
        /\ so_pc = "returned" => so_ret \in {"err_args", "err_palette"}

(***************************************************************************)
(* Claims about whole transmissions, checked under SpecTxRun               *)
(***************************************************************************)
\* the bit depth the pixel format stands for: N for BppN, and for Auto the
\* smallest of 1, 2, 4, 8 whose 2^N colours hold the palette
DepthFor(pixfmt, n) ==
    CASE pixfmt.kind = "Bpp1" -> 1
      [] pixfmt.kind = "Bpp2" -> 2
      [] pixfmt.kind = "Bpp4" -> 4
      [] pixfmt.kind = "Bpp8" -> 8
      [] pixfmt.kind = "Auto" ->
            IF n <= 2 THEN 1 ELSE IF n <= 4 THEN 2 ELSE IF n <= 16 THEN 4 ELSE 8

\* send_osc got past the choice of the bit depth
DepthChosen == so_pc \in {"encode", "window", "wait_window"} \/ so_ret = "ok"

\* send_osc got past the packing
Packed == so_pc \in {"window", "wait_window"} \/ so_ret = "ok"

\* C21: with Auto and a palette of at most 256 colours, and with any explicit
\* BppN whatever the palette, the bit depth is the one the pixel format stands
\* for; the stream is the index array packed at that depth, and byte 3 of the
\* SetBitDepth frame is the code of that depth.
TxBitDepthFromPixFmt ==
    LET n == Len(so_args.palette)
        d == DepthFor(so_args.pixfmt, n)
        p == PackBytesClone(so_args.indexes, so_args.width, d)
    IN  (so_args.pixfmt.kind # "Auto" \/ n <= 256) =>
            /\ DepthChosen => bitdepth = d
            /\ Packed =>
                tx_indexes = IF so_args.rle_compression THEN RleEncode(p) ELSE p
            /\ \A i \in DOMAIN wire :
                (wire[i].step = "SetBitDepth" /\ wire[i].addr = "V") =>
                    wire[i].val = CASE wire[i].reg = 0 -> SETPIXEL_COMMAND
                                    [] wire[i].reg = 1 -> BITDEPTH_PIXEL
                                    [] wire[i].reg = 3 -> BitDepthCode(d)
                                    [] OTHER -> 0

\* C21 witness: Auto with a palette of five colours announced 4 bits and ran
\* to its end.
TxAutoFiveColoursIsFour ==
    /\ so_args.pixfmt.kind = "Auto"
    /\ Len(so_args.palette) = 5
    /\ bitdepth = 4
    /\ \E i \in DOMAIN wire :
         /\ wire[i].step = "SetBitDepth"
         /\ wire[i].reg = 3
         /\ wire[i].val = 64
    /\ tx_pc = "exited"
    /\ tx_end = "ok"

(***************************************************************************)
(* Claims about pack_bytes_clone, checked under SpecPack                   *)
(***************************************************************************)
\* the number of bytes of one packed row
RowBytes(width, d) == (width * d + 7) \div 8

\* the number of rows of the image given to pack_bytes_clone
PackHeight == Len(pk_args.indexes) \div pk_args.width

\* every index given to pack_bytes_clone fits the bit depth
PackInRange ==
    \A i \in DOMAIN pk_args.indexes : pk_args.indexes[i] < 2 ^ pk_args.bitdepth

\* the d bits at slot t (0-based, from the most significant bits) of byte b
Slot(b, d, t) == (b \div (2 ^ (8 - d * (t + 1)))) % (2 ^ d)

\* the inverse of the packing: pixel c of row r is read from slot c % (8/d)
\* of byte c / (8/d) of the row's RowBytes bytes; the padding is not read
Unpack(bytes, width, height, d) ==
    [i \in 1 .. width * height |->
        LET r == (i - 1) \div width
            c == (i - 1) % width
        IN  Slot(bytes[r * RowBytes(width, d) + (c \div (8 \div d)) + 1], d,
                 c % (8 \div d))]

\* C22: when every index is below 2^d, the packed array has
\* height * ceil(width * d / 8) bytes and unpacking it row by row gives back
\* the index array.
PackUnpackRoundTrip ==
    (pk_pc = "done" /\ PackInRange) =>
        /\ Len(pk_out) = PackHeight * RowBytes(pk_args.width, pk_args.bitdepth)
        /\ Unpack(pk_out, pk_args.width, PackHeight, pk_args.bitdepth)
                = pk_args.indexes

\* C22 witness: a row of three 4-bit indexes was packed into two bytes, the
\* second one padded.
PackedThreeNibbles ==
    /\ pk_pc = "done"
    /\ pk_args = [indexes |-> <<15, 1, 2>>, width |-> 3, bitdepth |-> 4]
    /\ pk_out = <<241, 32>>

\* C23: when every index is below 2^d, each row of width indexes is packed
\* into its own ceil(width * d / 8) bytes; slot t of byte j of a row holds
\* index j * (8/d) + t of that row, and 0 where the row has no such index;
\* width 4, indexes 0 1 2 3 at 2 bits give the byte 0x1B.
PackMatchesRowPacker ==
    LET w   == pk_args.width
        d   == pk_args.bitdepth
        per == 8 \div d
        rb  == RowBytes(w, d)
    IN  (pk_pc = "done" /\ PackInRange) =>
            /\ Len(pk_out) = PackHeight * rb
            /\ \A r \in 0 .. PackHeight - 1 : \A j \in 0 .. rb - 1 :
                \A t \in 0 .. per - 1 :
                    Slot(pk_out[r * rb + j + 1], d, t) =
                        IF j * per + t < w
                        THEN pk_args.indexes[r * w + j * per + t + 1]
                        ELSE 0
            /\ pk_args = [indexes |-> <<0, 1, 2, 3>>, width |-> 4, bitdepth |-> 2]
                    => pk_out = <<27>>

\* C23 witness: two rows of two 2-bit indexes were packed into one byte
\* each.
PackedTwoShortRows ==
    /\ pk_pc = "done"
    /\ pk_args = [indexes |-> <<1, 2, 3, 1>>, width |-> 2, bitdepth |-> 2]
    /\ pk_out = <<96, 208>>

\* the messages of one kind of chunk, in the order they were sent
IsPixelMsg(m) == m.step = "PixelChunk"

IsPaletteMsg(m) == m.step = "PaletteChunk"

\* the protocol closure has returned Ok(()) without having been cancelled
TxCompleted == tx_pc \in {"delete", "exited"} /\ tx_end = "ok"

\* message i (1-based) of a sequence of frames, each FRAME_SIZE register
\* messages and a clock toggle: which frame it belongs to and its place in it
FrameOf(i) == (i - 1) \div (BYTES_PER_SEND + 1)

PlaceOf(i) == (i - 1) % (BYTES_PER_SEND + 1)

\* m is the message at place n of a frame whose byte n is b: the register
\* message V<n> with value b, or the CLK message that ends the frame
IsFrameMsg(m, n, b) ==
    IF n < BYTES_PER_SEND
    THEN m.addr = "V" /\ m.reg = n /\ m.val = b
    ELSE m.addr = "CLK"

\* byte n of frame k of the pixel stream, 0 beyond the end of the stream
PixelByte(k, n) ==
    IF k * BYTES_PER_SEND + n + 1 <= Len(tx_indexes)
    THEN tx_indexes[k * BYTES_PER_SEND + n + 1]
    ELSE 0

\* C25: the messages of pixel chunks on the wire are, in order, the frames of
\* the stream: frame k is V0 .. V23 with the bytes k*24 .. k*24+23 of the
\* stream, 0 where the stream has ended, then one CLK; never more than
\* ceil(L/24) frames, and exactly that many when the transmission completed.
TxPixelFrames ==
    LET pw == SelectSeq(wire, IsPixelMsg)
        nf == DivCeil(Len(tx_indexes), BYTES_PER_SEND)
    IN  /\ Len(pw) <= nf * (BYTES_PER_SEND + 1)
        /\ \A i \in DOMAIN pw :
            /\ pw[i].chunk = FrameOf(i)
            /\ IsFrameMsg(pw[i], PlaceOf(i), PixelByte(FrameOf(i), PlaceOf(i)))
        /\ TxCompleted => Len(pw) = nf * (BYTES_PER_SEND + 1)

\* C25 witness: a stream of 25 bytes was sent in two frames, the second one
\* a byte and 23 zeros.
TxSentTwentyFiveBytes ==
    /\ TxCompleted
    /\ Len(tx_indexes) = 25
    /\ Len(SelectSeq(wire, IsPixelMsg)) = 50
    /\ wire[Len(wire) - 1].reg = 23
    /\ wire[Len(wire) - 1].val = 0

\* byte n of palette frame k: the command byte, then r, g, b of the colours
\* 7k .. 7k+6, 0 where the palette has ended
PaletteByte(k, n) ==
    LET c == k * PALETTE_COLORS_PER_SEND + ((n - 1) \div 3) + 1 IN
    IF n = 0 THEN PALETTEWRITE_COMMAND
    ELSE IF (n - 1) \div 3 < PALETTE_COLORS_PER_SEND /\ c <= Len(so_args.palette)
         THEN so_args.palette[c][((n - 1) % 3) + 1]
         ELSE 0

\* C26: the messages of palette chunks on the wire are, in order, the frames
\* of the palette: frame k is 0xC0, then r, g, b of the colours 7k .. 7k+6,
\* then zeros, then one CLK; exactly ceil(P/7) frames when an indexed
\* transmission completed, and none at all in grayscale.
TxPaletteFrames ==
    LET pw == SelectSeq(wire, IsPaletteMsg)
        nf == DivCeil(Len(so_args.palette), PALETTE_COLORS_PER_SEND)
    IN  /\ Len(pw) <= nf * (BYTES_PER_SEND + 1)
        /\ \A i \in DOMAIN pw :
            /\ pw[i].chunk = FrameOf(i)
            /\ IsFrameMsg(pw[i], PlaceOf(i), PaletteByte(FrameOf(i), PlaceOf(i)))
        /\ (TxCompleted /\ color = "Indexed") =>
                Len(pw) = nf * (BYTES_PER_SEND + 1)
        /\ so_args.pixfmt.color = "Grayscale" => pw = <<>>

\* C26 witness: a palette of 15 colours was uploaded in three frames.
TxUploadedFifteenColours ==
    /\ TxCompleted
    /\ color = "Indexed"
    /\ Len(so_args.palette) = 15
    /\ Len(SelectSeq(wire, IsPaletteMsg)) = 75

(***************************************************************************)
(* Claims about the shape of the protocol steps, checked under SpecTx      *)
(***************************************************************************)
\* the steps in tx_trace that sent all their messages
DoneSteps ==
    {i \in DOMAIN tx_trace :
        /\ tx_trace[i].step \notin CheckSteps
        /\ ~(i = Len(tx_trace) /\ tx_end = "error")}

\* the messages of step i of tx_trace, in the order they were sent
MsgsOf(i) ==
    [n \in 1 .. tx_trace[i].sent |-> wire[tx_trace[i].first + n]]

\* the messages of step i are one register-write frame, V0 .. V23 in order,
\* followed by one CLK message, followed by the step's only sleep
IsFrameStep(i) ==
    LET ms == MsgsOf(i) IN
    /\ Len(ms) = BYTES_PER_SEND + 1
    /\ \A n \in 1 .. BYTES_PER_SEND :
        ms[n].addr = "V" /\ ms[n].reg = n - 1 /\ ms[n].seq = i
    /\ ms[BYTES_PER_SEND + 1].addr = "CLK"
    /\ ms[BYTES_PER_SEND + 1].seq = i
    /\ tx_trace[i].sleeps = {tx_trace[i].first + BYTES_PER_SEND + 1}

\* the addresses of the messages of step i, in order, are addrs, and the
\* step slept after the messages whose numbers are in after, only
IsPlainStep(i, addrs, after) ==
    LET ms == MsgsOf(i) IN
    /\ Len(ms) = Len(addrs)
    /\ \A n \in DOMAIN addrs : ms[n].addr = addrs[n] /\ ms[n].seq = i
    /\ tx_trace[i].sleeps = {tx_trace[i].first + n : n \in after}

\* C29, as stated: every step that was carried out, from ResetClock to the
\* last pixel chunk, is one register-write frame, one CLK message and one
\* sleep.
TxEveryStepIsFrame == \A i \in DoneSteps : IsFrameStep(i)

\* C29, amended: every control-register step, palette chunk and pixel chunk
\* that was carried out is one register-write frame, one CLK message and one
\* sleep; ResetClock is two CLK messages, each followed by a sleep;
\* ResetPixelPointer is V0, Reset, CLK and a sleep; ClearResetFlag is Reset
\* and a sleep.
TxStepShapes ==
    \A i \in DoneSteps :
        CASE tx_trace[i].step \in ControlSteps \cup ChunkSteps -> IsFrameStep(i)
          [] tx_trace[i].step = "ResetClock" ->
                IsPlainStep(i, <<"CLK", "CLK">>, {1, 2})
          [] tx_trace[i].step = "ResetPixelPointer" ->
                IsPlainStep(i, <<"V", "Reset", "CLK">>, {3})
          [] tx_trace[i].step = "ClearResetFlag" ->
                IsPlainStep(i, <<"Reset">>, {1})

\* C29 witness: an indexed transmission carried out every kind of step.
TxEveryKindOfStepDone ==
    /\ tx_pc = "exited"
    /\ tx_end = "ok"
    /\ {tx_trace[i].step : i \in DoneSteps} =
            {"ResetClock", "ResetPixelPointer", "SetCompressionMode",
             "SetBitDepth", "ResetPaletteWriteIndex", "PaletteChunk",
             "EnablePaletteRead", "ClearResetFlag", "PixelChunk"}

IsClkMsg(m) == m.addr = "CLK"

\* C30: the CLK messages of a transmission alternate, beginning with true:
\* ResetClock sends true and false, and every later CLK message, sent by
\* send_clk after the register writes of its step, is the opposite of the
\* CLK message before it.
TxClkAlternates ==
    LET cs == SelectSeq(wire, IsClkMsg) IN
    \A i \in DOMAIN cs :
        /\ cs[i].val = (i % 2 = 1)
        /\ i > 1 => cs[i].val # cs[i - 1].val
        /\ (cs[i].step = "ResetClock") <=> (i <= 2)

\* C30 witness: a transmission that completed sent at least seven CLK
\* messages, the last one after the register writes of a pixel chunk.
TxClockedPixelChunk ==
    /\ tx_pc = "exited"
    /\ tx_end = "ok"
    /\ Len(SelectSeq(wire, IsClkMsg)) >= 7
    /\ wire[Len(wire)].addr = "CLK"
    /\ wire[Len(wire)].step = "PixelChunk"
    /\ wire[Len(wire) - 1].addr = "V"

(***************************************************************************)
(* Claims about sessions, checked under SpecSession, SpecSessionFair and    *)
(* SpecAppPoison                                                           *)
(***************************************************************************)
\* a transmission thread is alive: spawned and not yet ended
TxRunning == tx_pc \notin {"none", "exited"}

\* C24: when send is triggered again while an earlier transmission is still
\* running, the second transmission also starts: the call of send_osc made
\* while the earlier transmission thread is alive does not fail to bind its
\* socket.
TxSecondAlsoStarts ==
    (TxRunning /\ so_pc = "returned") => so_ret # "err_bind"

\* C27: send_osc's wait for the created window always ends, and once the UI
\* thread has sent Quit and joins the worker, the worker eventually
\* terminates.
SessWaitEndsAndJoinReturns ==
    /\ (so_pc = "wait_window") ~> (so_pc = "returned")
    /\ (ui_pc = "joining") ~> (worker_pc = "finished")

\* C28: when recv on the worker's queue has failed because the lock is
\* poisoned, the worker has left its loop: it is not about to call recv
\* again.
WorkerStopsOnRecvError ==
    last.op = ErrOf("recv") => worker_pc = "finished"

(***************************************************************************)
(* Further claims about rle_encode, checked under SpecRle                  *)
(***************************************************************************)
\* the length of the maximal run of equal bytes of b that starts at p
RunLen(b, p) ==
    LET ends == {k \in p .. Len(b) : k = Len(b) \/ b[k + 1] # b[p]}
        first == CHOOSE k \in ends : \A j \in ends : k <= j
    IN first - p + 1

\* run-length encoding without blocks: a maximal run of n >= 2 bytes is
\* (value, value, n), a byte that differs from both neighbours is itself
RECURSIVE RunsFrom(_, _)
RunsFrom(b, p) ==
    IF p > Len(b) THEN <<>>
    ELSE LET n == RunLen(b, p) IN
        (IF n = 1 THEN <<b[p]>> ELSE <<b[p], b[p], n>>) \o RunsFrom(b, p + n)

\* every maximal run of b has at most U8_MAX bytes
RECURSIVE ShortRunsFrom(_, _)
ShortRunsFrom(b, p) ==
    \/ p > Len(b)
    \/ /\ RunLen(b, p) <= U8_MAX
       /\ ShortRunsFrom(b, p + RunLen(b, p))

\* the output has no byte at offset BYTES_PER_SEND-2 or beyond
RleShortOutput == Len(result) <= BYTES_PER_SEND - 2

\* C31: when the output does not reach offset BYTES_PER_SEND-2 of its first
\* block and no run of the input is longer than 255, the output is, run by
\* run, (value, value, n) for every maximal run of n >= 2 equal bytes and the
\* byte itself for every byte that differs from both its neighbours.
RleRunsAsTriples ==
    (rle_pc = "done" /\ RleShortOutput /\ ShortRunsFrom(indexes, 1))
        => result = RunsFrom(indexes, 1)

\* C31 witness: a literal, a run of 255 and a run of three were encoded
RleLiteralAndTwoRuns ==
    /\ rle_pc = "done"
    /\ indexes = <<0>> \o Repeat(RunVal, U8_MAX) \o <<2, 2, 2>>
    /\ result = <<0, RunVal, RunVal, U8_MAX, 2, 2, 3>>

\* the number of input bytes the output stands for: the count of every
\* emitted triple, one for every other byte
RECURSIVE RleCovered(_, _)
RleCovered(res, p) ==
    IF p > Len(res) THEN 0
    ELSE IF (p - 1) \in triples THEN res[p + 2] + RleCovered(res, p + 3)
    ELSE 1 + RleCovered(res, p + 1)

\* C32: the count byte of every emitted triple is between 2 and 255, and the
\* counts of the triples plus the number of literal bytes equal the number of
\* input bytes, also for a run of more than 255 equal bytes.
RleCountsAddUp ==
    /\ \A t \in triples :
        /\ t + 3 <= Len(result)
        /\ result[t + 1] = result[t + 2]
        /\ result[t + 3] \in 2 .. U8_MAX
    /\ rle_pc = "done" => RleCovered(result, 1) = Len(indexes)

\* C32 witness: a run of 257 bytes came out as a triple of 255 and a triple
\* of 2
RleLongRunSplit ==
    /\ rle_pc = "done"
    /\ indexes = Repeat(RunVal, U8_MAX + 2)
    /\ result = <<RunVal, RunVal, U8_MAX, RunVal, RunVal, 2>>

\* C38: rle_encode does not panic: at the start of a loop iteration at the
\* last two bytes of a block a value is pending with count 1, and a pending
\* value never has count 0.
RleNeverPanics ==
    /\ rle_pc # "panic"
    /\ (rle_pc = "loop" /\ AtBlockEnd(result))
        => (count = 1 /\ current_value # None)
    /\ current_value # None => count # 0

\* C38 witness: the loop is at the last byte of the first block while the
\* long run is being read
RleInRunAtBlockEnd ==
    /\ rle_pc = "loop"
    /\ Len(result) = BYTES_PER_SEND - 1
    /\ current_value = Some(RunVal)
    /\ result[BYTES_PER_SEND - 1] = RunVal

(***************************************************************************)
(* Further claims about pack_bytes_clone, checked under SpecPack           *)
(***************************************************************************)
\* C40: at bit depths 1, 2 and 4 only the low d bits of an index reach the
\* packed array, whatever the index: every packed byte fits in 8 bits, the
\* slot of a pixel holds its index modulo 2^d, and the slots of the other
\* pixels and of the padding are what they are for the reduced index.
PackUsesLowBits ==
    LET w   == pk_args.width
        d   == pk_args.bitdepth
        per == 8 \div d
        rb  == RowBytes(w, d)
    IN  (pk_pc = "done" /\ d \in {1, 2, 4}) =>
            /\ Len(pk_out) = PackHeight * rb
            /\ \A k \in DOMAIN pk_out : pk_out[k] \in 0 .. U8_MAX
            /\ \A r \in 0 .. PackHeight - 1 : \A j \in 0 .. rb - 1 :
                \A t \in 0 .. per - 1 :
                    Slot(pk_out[r * rb + j + 1], d, t) =
                        IF j * per + t < w
                        THEN pk_args.indexes[r * w + j * per + t + 1] % (2 ^ d)
                        ELSE 0

\* C40 witness: the 1-bit row 254, 1 was packed as the bits 0, 1
PackedHighBitsCut ==
    /\ pk_pc = "done"
    /\ pk_args = [indexes |-> <<U8_MAX - 1, 1>>, width |-> 2, bitdepth |-> 1]
    /\ pk_out = <<64>>

(***************************************************************************)
(* Claims about the frames on the wire, checked under SpecTx and SpecTxRun *)
(***************************************************************************)
\* the ASCII codes of n written in decimal, for n below 100
Decimal(n) ==
    IF n <= 9 THEN <<48 + n>> ELSE <<48 + (n \div 10), 48 + (n % 10)>>

\* C37: the byte at position n of a frame is sent to the register named V
\* followed by n in decimal: V0 through V23.
TxRegistersNamedByNumber ==
    \A i \in DOMAIN wire :
        wire[i].addr = "V" => wire[i].name = <<86>> \o Decimal(wire[i].reg)

\* the register address a control step writes to: 2 bit depth, 3 palette
\* control, 4 palette write index, 5 compression control
ControlAddress(step) ==
    CASE step = "SetBitDepth"            -> 2
      [] step = "EnablePaletteRead"      -> 3
      [] step = "SetGrayscaleMode"       -> 3
      [] step = "ResetPaletteWriteIndex" -> 4
      [] step = "SetCompressionMode"     -> 5

\* C35: every control-register frame that was sent has byte 0 = 0x80, byte 1
\* = the address of its register, byte 2 = 0, its value, one byte, in byte 3
\* and 0 in the bytes 4 .. FRAME_SIZE-1.
TxControlFrames ==
    \A i \in DoneSteps :
        tx_trace[i].step \in ControlSteps =>
            LET ms == MsgsOf(i) IN
            /\ Len(ms) = BYTES_PER_SEND + 1
            /\ \A n \in 1 .. BYTES_PER_SEND :
                ms[n].addr = "V" /\ ms[n].reg = n - 1
            /\ ms[1].val = 128
            /\ ms[2].val = ControlAddress(tx_trace[i].step)
            /\ ms[3].val = 0
            /\ ms[4].val \in 0 .. U8_MAX
            /\ \A n \in 5 .. BYTES_PER_SEND : ms[n].val = 0

\* C35 witness: an indexed transmission at 4 bits has sent its four control
\* frames, with the values 0, 64, 0 and 255
TxFourControlFramesSent ==
    /\ TxCompleted
    /\ \E a, b, c, d \in DoneSteps :
        /\ tx_trace[a].step = "SetCompressionMode" /\ MsgsOf(a)[4].val = 0
        /\ tx_trace[b].step = "SetBitDepth" /\ MsgsOf(b)[4].val = 64
        /\ tx_trace[c].step = "ResetPaletteWriteIndex" /\ MsgsOf(c)[4].val = 0
        /\ tx_trace[d].step = "EnablePaletteRead" /\ MsgsOf(d)[4].val = 255

\* the bit depth a bit-depth code stands for
DepthOfCode(code) ==
    CASE code = 192 -> 1
      [] code = 128 -> 2
      [] code = 64  -> 4
      [] code = 0   -> 8

\* C39: the bit-depth frame carries 192, 128, 64 or 0 and the
\* compression-control frame 0 or 255, and the stream that is sent is the
\* index array packed at the depth the bit-depth frame stands for, passed
\* through rle_encode exactly when the compression-control frame carries 255.
TxHandshakeMatchesStream ==
    \A i, j \in DoneSteps :
        (tx_trace[i].step = "SetBitDepth"
            /\ tx_trace[j].step = "SetCompressionMode") =>
            LET code == MsgsOf(i)[4].val
                comp == MsgsOf(j)[4].val
            IN  /\ code \in {192, 128, 64, 0}
                /\ comp \in {0, 255}
                /\ bitdepth = DepthOfCode(code)
                /\ (comp = 255) <=> so_args.rle_compression
                /\ LET p == PackBytesClone(so_args.indexes, so_args.width,
                                           DepthOfCode(code))
                   IN  tx_indexes = IF comp = 255 THEN RleEncode(p) ELSE p

\* C39 witness: a compressed 8-bit transmission announced 0 and 255 and ran
\* to its end; its stream is not the packed array itself
TxCompressedEightBitsAnnounced ==
    /\ TxCompleted
    /\ tx_indexes # PackBytesClone(so_args.indexes, so_args.width, 8)
    /\ \E i, j \in DoneSteps :
        /\ tx_trace[i].step = "SetBitDepth" /\ MsgsOf(i)[4].val = 0
        /\ tx_trace[j].step = "SetCompressionMode" /\ MsgsOf(j)[4].val = 255

\* C36: the cancel flag of a transmission starts false and only ever changes
\* from false to true; the step that changes it is a callback of the
\* progress window on the UI thread, when that window exists, and no step of
\* send_osc or of the transmission thread changes it.
TxCancelFlagSetOnceByUi ==
    /\ ~cancel_flag
    /\ [][/\ cancel_flag => cancel_flag'
          /\ cancel_flag' # cancel_flag =>
                /\ ui_pc = "running"
                /\ WindowCreated
                /\ UNCHANGED <<soVars, txVars>>]_vars

\* C36 witness: the flag was set while the transmission ran, and the thread
\* has read it and ended
TxFlagSetThenRead ==
    /\ cancel_flag
    /\ cancel_at # <<>>
    /\ cancel_at[1].steps > 0
    /\ tx_end = "cancelled"
    /\ tx_pc = "exited"

(***************************************************************************)
(* Claims about a transmission while the image is edited, checked under     *)
(* SpecLive                                                                *)
(***************************************************************************)
\* the byte stream of the image the worker held when it called send_osc
SentStream ==
    LET img == Unwrap(sent_image)
        p   == PackBytesClone(img.indexes, img.width, bitdepth)
    IN  IF so_args.rle_compression THEN RleEncode(p) ELSE p

\* byte n of a frame that starts at offset k * FRAME_SIZE of stream s
StreamByte(s, k, n) ==
    IF k * BYTES_PER_SEND + n + 1 <= Len(s) THEN s[k * BYTES_PER_SEND + n + 1]
    ELSE 0

\* byte n >= 1 of palette frame k of palette pal
ColourByte(pal, k, n) ==
    LET c == k * PALETTE_COLORS_PER_SEND + ((n - 1) \div 3) + 1 IN
    IF (n - 1) \div 3 < PALETTE_COLORS_PER_SEND /\ c <= Len(pal)
    THEN pal[c][((n - 1) % 3) + 1]
    ELSE 0

\* C34: every pixel frame and every palette frame a transmission sends holds
\* the bytes of the image the worker held when it called send_osc, whatever
\* UpdateImage, LoadImage or ClearImage have made of the worker's image
\* since; and a step of the worker that replaces its image changes nothing of
\* the transmission.
TxStreamsCapturedImage ==
    /\ [](\A i \in DOMAIN wire :
            /\ (wire[i].step = "PixelChunk" /\ wire[i].addr = "V") =>
                wire[i].val = StreamByte(SentStream, wire[i].chunk, wire[i].reg)
            /\ (wire[i].step = "PaletteChunk" /\ wire[i].addr = "V"
                    /\ wire[i].reg >= 1) =>
                wire[i].val = ColourByte(Unwrap(sent_image).palette,
                                         wire[i].chunk, wire[i].reg))
    /\ [][processed_image' # processed_image =>
            UNCHANGED <<soVars, txVars, sent_image>>]_vars

\* C34 witness: the worker's image is no longer the one it called send_osc
\* with, and the transmission has sent its pixel frame since the palette was
\* uploaded
TxSentAfterImageReplaced ==
    /\ sent_image # None
    /\ processed_image # sent_image
    /\ processed_image # None
    /\ TxCompleted
    /\ \E i \in DOMAIN wire : wire[i].step = "PixelChunk" /\ wire[i].val # 0

(***************************************************************************)
(* Claims about the progress bar, checked under SpecProgress               *)
(***************************************************************************)
\* C33: progress updates take effect on the progress bar in the order the
\* transmitter issued them: an update is never applied after an update that
\* was issued later has been applied.
ProgressAppliedInOrder ==
    [][progressbar' # progressbar => progressbar'.n > progress_hi]_vars

\* the case of C33 in which both updates are of pixel chunks: the bar has
\* shown the update of a later chunk and now shows that of an earlier one
ProgressWentBack ==
    /\ progressbar.step = "PixelChunk"
    /\ progressbar.n < progress_hi
    /\ \E i \in DOMAIN tx_trace :
        /\ i = progress_hi
        /\ tx_trace[i].step = "PixelChunk"

====
